---- MODULE Spec2Model ----
(***************************************************************************)
(* The single-shot OAuth callback listener of openai-auth (src/src/server.rs)*)
(* together with the caller that awaits it (examples/04_callback_server.rs), *)
(* and the blocking OAuth client (src/src/blocking.rs, src/src/types.rs)     *)
(* with the token endpoint that answers it.                                  *)
(*                                                                           *)
(* Strings are sequences of atomic tokens.  The delimiters "?", "&" and "="  *)
(* are tokens of their own; every other token is a chunk of bytes that holds *)
(* no delimiter, and no token other than "/auth/callback" begins with the    *)
(* bytes "/auth/callback".  Prefix tests, splitting and concatenation are    *)
(* therefore the same on tokens as on bytes.                                 *)
(***************************************************************************)
EXTENDS Naturals, Sequences, FiniteSets

VARIABLES
    expected_state,  \* ServerState.expected_state
    html_responder,  \* ServerState.html_responder (which responder was passed)
    callerPc,        \* the caller's position around the future of run_callback_server
    result,          \* what run_callback_server_with_html returned to the caller
    exchanged,       \* the code the caller handed to exchange_code
    workerPc,        \* position of the spawn_blocking worker running run_sync_server
    workerRet,       \* the Result<()> run_sync_server returned (into a dropped JoinHandle)
    txSlot,          \* ServerState.tx : Mutex<Option<oneshot::Sender>>
    chan,            \* the value stored in the oneshot channel
    inbox,           \* requests accepted by the bound socket, not yet taken by the loop
    nArrived,        \* how many requests clients have sent so far
    pending,         \* the callback request whose response is not written yet
    classified,      \* history: every process_callback call, in order
    sent,            \* history: every value stored into the oneshot channel
    delivered,       \* history: every value the waiter took out of the channel
    log,             \* history: every request together with the response it got
    config,          \* OAuthClient.config
    now,             \* the system clock, seconds since the epoch
    flow,            \* the OAuthFlow the last successful start_flow returned
    clientPc,        \* the blocking client: idle, or awaiting the answer to a request
    opCalled,        \* the operation of OAuthClient the caller called last
    leg,             \* the function whose request is in flight
    args,            \* the arguments of that call
    tokens,          \* the local "tokens" of exchange_code_for_api_key
    wire,            \* history: every request sent to token_url, with its call number
    replies,         \* history: the answers received during the call
    ret,             \* what the last call returned
    nCalls,          \* how many operations the caller has called
    overflow_checks, \* whether the build checks integer overflow (debug) or wraps (release)
    held,            \* a TokenSet the caller keeps and looks at
    readings,        \* history: every look at held: the clock, expires_in(), is_expired()
    nTicks,          \* how many times the clock has moved
    jwt,             \* the call of extract_account_id: its token and its result
    pkce             \* the call of generate_pkce_pair: its random bytes and its result

\* The listener and its caller
cbVars == <<expected_state, html_responder, callerPc, result, exchanged, workerPc,
            workerRet, txSlot, chan, inbox, nArrived, pending, classified, sent,
            delivered, log>>

\* The blocking client and its caller
\* The blocking client without the clock
clientRest == <<config, flow, clientPc, opCalled, leg, args, tokens, wire,
                replies, ret, nCalls, overflow_checks>>

\* The blocking client and its caller
exVars == <<now, clientRest>>

\* The caller of the pure functions
libVars == <<held, readings, nTicks, jwt, pkce>>

vars == <<cbVars, exVars, libVars>>

-----------------------------------------------------------------------------
(* Bounds *)

\* How many requests clients send to the port during one run.
MaxRequests == 2

\* How many operations of the blocking client a caller calls during one run.
MaxCalls == 2

\* How many times the clock moves while a caller looks at a TokenSet.
MaxTicks == 2

\* How many times a caller looks at the expiry of a TokenSet.
MaxReads == 2

\* u64 arithmetic is done modulo this number, which stands for 2^64: TLC's
\* integers are 32 bits wide.  Every clock reading and every lifetime but the
\* largest lies far below it.
U64Modulus == 1048576

-----------------------------------------------------------------------------
(* Option<String> *)

None == [some |-> FALSE, v |-> <<>>]

Some(s) == [some |-> TRUE, v |-> s]

\* Option::as_deref().unwrap_or("")
UnwrapOrEmpty(o) == IF o.some THEN o.v ELSE <<>>

-----------------------------------------------------------------------------
(* str helpers *)

\* str::starts_with
StartsWith(s, prefix) ==
    /\ Len(s) >= Len(prefix)
    /\ SubSeq(s, 1, Len(prefix)) = prefix

\* Index of the first occurrence of token d in s, 0 when there is none.
IndexOf(s, d) ==
    IF \E i \in 1..Len(s) : s[i] = d
    THEN CHOOSE i \in 1..Len(s) : s[i] = d /\ \A j \in 1..(i - 1) : s[j] # d
    ELSE 0

\* str::split(d): the pieces between the delimiters, an empty string giving
\* one empty piece.
Split[s \in Seq(STRING), d \in STRING] ==
    LET i == IndexOf(s, d)
    IN  IF i = 0 THEN <<s>>
        ELSE <<SubSeq(s, 1, i - 1)>> \o Split[SubSeq(s, i + 1, Len(s)), d]

\* Iterator::nth(1).unwrap_or("") on the pieces of a split
Nth1OrEmpty(parts) == IF Len(parts) >= 2 THEN parts[2] ELSE <<>>

\* querystring::querify over the "&"-separated pieces: a piece with no "=" is
\* skipped, otherwise the first two "="-separated parts are the key and value.
QuerifyPairs[pieces \in Seq(Seq(STRING))] ==
    IF pieces = <<>> THEN <<>>
    ELSE LET kv == Split[Head(pieces), "="]
         IN  (IF Len(kv) >= 2 THEN << <<kv[1], kv[2]>> >> ELSE <<>>)
             \o QuerifyPairs[Tail(pieces)]

Querify(query_str) == QuerifyPairs[Split[query_str, "&"]]

\* params.iter().find(|(k, _)| *k == key).map(|(_, v)| v.to_string())
FindParam(params, key) ==
    IF \E i \in 1..Len(params) : params[i][1] = <<key>>
    THEN Some(params[CHOOSE i \in 1..Len(params) :
                        /\ params[i][1] = <<key>>
                        /\ \A j \in 1..(i - 1) : params[j][1] # <<key>>][2])
    ELSE None

-----------------------------------------------------------------------------
(* Result<CallbackData> and the errors of OpenAIAuthError that travel here *)

\* The empty oneshot channel.
NoMsg == [kind |-> "Empty", code |-> <<>>, text |-> <<>>]

\* Ok(CallbackData { code, _state }) in the channel, Ok(code) at the caller
OkCode(code) == [kind |-> "Ok", code |-> code, text |-> <<>>]

\* Err(OpenAIAuthError::OAuth(text))
ErrOAuth(text) == [kind |-> "OAuth", code |-> <<>>, text |-> text]

\* Err(OpenAIAuthError::InvalidAuthorizationCode)
ErrInvalidAuthorizationCode ==
    [kind |-> "InvalidAuthorizationCode", code |-> <<>>, text |-> <<>>]

\* Err(OpenAIAuthError::CallbackServer(text))
ErrCallbackServer(text) == [kind |-> "CallbackServer", code |-> <<>>, text |-> text]

\* format!("OAuth error: {}", error)
OAuthErrorText(error) == <<"OAuth error: ">> \o error

StateMismatchText == <<"State mismatch - possible CSRF attack">>

ServerShutDownText == <<"Server shut down unexpectedly">>

\* format!("Failed to bind to {}: {}", addr, e)
BindFailedText == <<"Failed to bind to ", "127.0.0.1:", "port", ": ", "io error">>

-----------------------------------------------------------------------------
(* CallbackEvent and the HTML responders *)

EvSuccess(code) == [ev |-> "Success", arg |-> code]

EvError(reason) == [ev |-> "Error", arg |-> reason]

EvStateMismatch == [ev |-> "StateMismatch", arg |-> <<>>]

EvMissingCode == [ev |-> "MissingCode", arg |-> <<>>]

\* default_callback_html
DefaultCallbackHtml(event) ==
    CASE event.ev = "Success" -> <<"<h1>Authorization Successful!</h1>">>
      [] event.ev = "Error" -> <<"<h1>Authorization Failed</h1><p>Error: ">> \o event.arg
      [] event.ev = "StateMismatch" -> <<"<p>Security validation failed. Please try again.</p>">>
      [] OTHER -> <<"<p>No authorization code received.</p>">>

\* The responder of examples/06_callback_custom_html.rs
CustomCallbackHtml(event) ==
    CASE event.ev = "Success" -> <<"<h1>Success</h1>">>
      [] event.ev = "Error" -> <<"<h1>Authorization Failed</h1><p>Error: ">> \o event.arg
      [] event.ev = "StateMismatch" -> <<"<h1>State mismatch</h1>">>
      [] OTHER -> <<"<h1>Missing code</h1>">>

Responders == {"default", "custom"}

\* (state.html_responder)(event)
CallResponder(responder, event) ==
    IF responder = "default" THEN DefaultCallbackHtml(event)
    ELSE CustomCallbackHtml(event)

-----------------------------------------------------------------------------
(* process_callback *)

\* A send whose result is unwrapped instead of ignored: it panics when the
\* receiver is gone.
TakeAndSend_Unwrap(slot, rxAlive, msg) ==
    IF slot = "Some"
    THEN [slot |-> "None", chan |-> IF rxAlive THEN msg ELSE NoMsg,
          stored |-> rxAlive, panic |-> ~rxAlive]
    ELSE [slot |-> slot, chan |-> NoMsg, stored |-> FALSE, panic |-> FALSE]

\* let _ = state.tx.lock().unwrap().take().map(|tx| tx.send(msg));
\* take() empties the slot; oneshot::Sender::send stores the value unless the
\* receiver was dropped, and then hands it back in an Err that is ignored.
TakeAndSend(slot, rxAlive, msg) ==
    IF slot = "Some"
    THEN [slot |-> "None", chan |-> IF rxAlive THEN msg ELSE NoMsg,
          stored |-> rxAlive, panic |-> FALSE]
    ELSE [slot |-> slot, chan |-> NoMsg, stored |-> FALSE, panic |-> FALSE]

\* The listener stops only when the outcome reached the waiter.
Arm_StopIfDelivered(msg, event, stop, responder, slot, rxAlive) ==
    LET s == TakeAndSend(slot, rxAlive, msg)
    IN  [msg |-> msg, event |-> event, stop |-> stop /\ s.stored,
         html |-> CallResponder(responder, event),
         slot |-> s.slot, chan |-> s.chan, stored |-> s.stored, panic |-> s.panic]

\* The outcome handed to the waiter carries the page the responder rendered.
Arm_HtmlInOutcome(msg, event, stop, responder, slot, rxAlive) ==
    LET html == CallResponder(responder, event)
        s    == TakeAndSend(slot, rxAlive, [msg EXCEPT !.text = html])
    IN  [msg |-> [msg EXCEPT !.text = html], event |-> event, stop |-> stop,
         html |-> html,
         slot |-> s.slot, chan |-> s.chan, stored |-> s.stored, panic |-> s.panic]

\* One arm of process_callback: the send, then the responder, then the pair
\* (html, should_stop).
Arm(msg, event, stop, responder, slot, rxAlive) ==
    LET s == TakeAndSend(slot, rxAlive, msg)
    IN  [msg |-> msg, event |-> event, stop |-> stop,
         html |-> CallResponder(responder, event),
         slot |-> s.slot, chan |-> s.chan, stored |-> s.stored, panic |-> s.panic]

\* The code is looked at before the state is validated.
ProcessCallback_CodeFirst(code, received_state, error, expected, responder, slot, rxAlive) ==
    IF error.some
    THEN Arm(ErrOAuth(OAuthErrorText(error.v)), EvError(error.v), TRUE,
             responder, slot, rxAlive)
    ELSE IF code.some
    THEN Arm(OkCode(code.v), EvSuccess(code.v), TRUE, responder, slot, rxAlive)
    ELSE IF UnwrapOrEmpty(received_state) # expected
    THEN Arm(ErrOAuth(StateMismatchText), EvStateMismatch, TRUE,
             responder, slot, rxAlive)
    ELSE Arm(ErrInvalidAuthorizationCode, EvMissingCode, TRUE,
             responder, slot, rxAlive)

\* The state is validated before the error parameter is looked at.
ProcessCallback_StateFirst(code, received_state, error, expected, responder, slot, rxAlive) ==
    IF UnwrapOrEmpty(received_state) # expected
    THEN Arm(ErrOAuth(StateMismatchText), EvStateMismatch, TRUE,
             responder, slot, rxAlive)
    ELSE IF error.some
    THEN Arm(ErrOAuth(OAuthErrorText(error.v)), EvError(error.v), TRUE,
             responder, slot, rxAlive)
    ELSE IF code.some
    THEN Arm(OkCode(code.v), EvSuccess(code.v), TRUE, responder, slot, rxAlive)
    ELSE Arm(ErrInvalidAuthorizationCode, EvMissingCode, TRUE,
             responder, slot, rxAlive)

\* A failed validation keeps the listener running so that the browser can retry.
ProcessCallback_RetryOnFailure(code, received_state, error, expected, responder, slot, rxAlive) ==
    IF error.some
    THEN Arm(ErrOAuth(OAuthErrorText(error.v)), EvError(error.v), TRUE,
             responder, slot, rxAlive)
    ELSE IF UnwrapOrEmpty(received_state) # expected
    THEN Arm(ErrOAuth(StateMismatchText), EvStateMismatch, FALSE,
             responder, slot, rxAlive)
    ELSE IF code.some
    THEN Arm(OkCode(code.v), EvSuccess(code.v), TRUE, responder, slot, rxAlive)
    ELSE Arm(ErrInvalidAuthorizationCode, EvMissingCode, FALSE,
             responder, slot, rxAlive)

\* The received state is sent where the code belongs.
ProcessCallback_StateAsCode(code, received_state, error, expected, responder, slot, rxAlive) ==
    IF error.some
    THEN Arm(ErrOAuth(OAuthErrorText(error.v)), EvError(error.v), TRUE,
             responder, slot, rxAlive)
    ELSE IF UnwrapOrEmpty(received_state) # expected
    THEN Arm(ErrOAuth(StateMismatchText), EvStateMismatch, TRUE,
             responder, slot, rxAlive)
    ELSE IF code.some
    THEN Arm(OkCode(UnwrapOrEmpty(received_state)), EvSuccess(code.v), TRUE,
             responder, slot, rxAlive)
    ELSE Arm(ErrInvalidAuthorizationCode, EvMissingCode, TRUE,
             responder, slot, rxAlive)

\* A missing code is reported as a state mismatch.
ProcessCallback_MissingAsMismatch(code, received_state, error, expected, responder, slot, rxAlive) ==
    IF error.some
    THEN Arm(ErrOAuth(OAuthErrorText(error.v)), EvError(error.v), TRUE,
             responder, slot, rxAlive)
    ELSE IF UnwrapOrEmpty(received_state) # expected \/ ~code.some
    THEN Arm(ErrOAuth(StateMismatchText), EvStateMismatch, TRUE,
             responder, slot, rxAlive)
    ELSE Arm(OkCode(code.v), EvSuccess(code.v), TRUE, responder, slot, rxAlive)

\* A request without a state parameter never matches, whatever is expected.
ProcessCallback_StateRequired(code, received_state, error, expected, responder, slot, rxAlive) ==
    IF error.some
    THEN Arm(ErrOAuth(OAuthErrorText(error.v)), EvError(error.v), TRUE,
             responder, slot, rxAlive)
    ELSE IF ~received_state.some \/ received_state.v # expected
    THEN Arm(ErrOAuth(StateMismatchText), EvStateMismatch, TRUE,
             responder, slot, rxAlive)
    ELSE IF code.some
    THEN Arm(OkCode(code.v), EvSuccess(code.v), TRUE, responder, slot, rxAlive)
    ELSE Arm(ErrInvalidAuthorizationCode, EvMissingCode, TRUE,
             responder, slot, rxAlive)

\* process_callback(code, received_state, error, state): the error parameter
\* first, then the state, then the code; every arm returns should_stop = true.
ProcessCallback(code, received_state, error, expected, responder, slot, rxAlive) ==
    IF error.some
    THEN Arm(ErrOAuth(OAuthErrorText(error.v)), EvError(error.v), TRUE,
             responder, slot, rxAlive)
    ELSE IF UnwrapOrEmpty(received_state) # expected
    THEN Arm(ErrOAuth(StateMismatchText), EvStateMismatch, TRUE,
             responder, slot, rxAlive)
    ELSE IF code.some
    THEN Arm(OkCode(code.v), EvSuccess(code.v), TRUE, responder, slot, rxAlive)
    ELSE Arm(ErrInvalidAuthorizationCode, EvMissingCode, TRUE,
             responder, slot, rxAlive)

-----------------------------------------------------------------------------
(* Inbound requests: what a client sends, and the URL the server reads *)

CallbackPath == <<"/auth/callback">>

\* The state tokens a flow may be started with.
ExpectedStates == {<<"st1">>, <<>>}

\* The query parameters of a redirect, each at most once, as (key, value).
ParamList(c, s, e) ==
    (IF c.some THEN << <<"code", c.v>> >> ELSE <<>>)
    \o (IF s.some THEN << <<"state", s.v>> >> ELSE <<>>)
    \o (IF e.some THEN << <<"error", e.v>> >> ELSE <<>>)

\* The parameter lists sent to the callback path: a code with a state that
\* is "st1", wrong, empty or absent; no code, with and without a state; a
\* provider error alone, beside a full redirect, and beside a wrong state;
\* and a redirect whose state comes before its code.
CallbackParams ==
    {ParamList(Some(<<"abc">>), Some(<<"st1">>), None),
     ParamList(Some(<<"abc">>), Some(<<"WRONG">>), None),
     ParamList(Some(<<"abc">>), Some(<<>>), None),
     ParamList(Some(<<"abc">>), None, None),
     ParamList(None, Some(<<"st1">>), None),
     ParamList(None, None, None),
     ParamList(None, None, Some(<<"access_denied">>)),
     ParamList(Some(<<"abc">>), Some(<<"st1">>), Some(<<"access_denied">>)),
     ParamList(None, Some(<<"WRONG">>), Some(<<"access_denied">>)),
     << <<"state", <<"st1">> >>, <<"code", <<"abc">> >> >>}

\* Beside the callback path clients ask for a longer path that begins with
\* the same bytes ("/auth/callback2") and for an unrelated one, bare and with
\* the parameters of a valid redirect.
Requests ==
    {[path |-> CallbackPath, params |-> ps] : ps \in CallbackParams}
    \cup {[path |-> <<"/auth/callback", "2">>,
           params |-> ParamList(Some(<<"abc">>), Some(<<"st1">>), None)],
          [path |-> <<"/favicon.ico">>, params |-> <<>>],
          [path |-> <<"/favicon.ico">>,
           params |-> ParamList(Some(<<"abc">>), Some(<<"st1">>), None)]}

\* key=value pairs joined by "&", as a redirect carries them.
FormatQuery[ps \in Seq(STRING \X Seq(STRING))] ==
    IF ps = <<>> THEN <<>>
    ELSE <<Head(ps)[1], "=">> \o Head(ps)[2]
         \o (IF Len(ps) > 1 THEN <<"&">> \o FormatQuery[Tail(ps)] ELSE <<>>)

\* request.url(): the path, then "?" and the query when there is one.
RequestUrl(r) ==
    r.path \o (IF r.params = <<>> THEN <<>> ELSE <<"?">> \o FormatQuery[r.params])

\* The value a request carries for a key (its first occurrence), if any.
ParamOf(r, key) ==
    IF \E i \in 1..Len(r.params) : r.params[i][1] = key
    THEN Some(r.params[CHOOSE i \in 1..Len(r.params) :
                          /\ r.params[i][1] = key
                          /\ \A j \in 1..(i - 1) : r.params[j][1] # key][2])
    ELSE None

-----------------------------------------------------------------------------
(* run_sync_server *)

\* url.starts_with("/auth/callback")
IsCallbackUrl(url) == StartsWith(url, CallbackPath)

\* The socket is bound from Server::http(addr) until server is dropped.
PortBound == workerPc \in {"listening", "responding"}

\* A clone of the Arc<ServerState> outlives the worker: the Sender is never
\* dropped.
DropServerState_Leak(slot) == slot

\* Dropping the Arc<ServerState> when run_sync_server returns or unwinds drops
\* the Sender if it is still in the slot.
DropServerState(slot) == IF slot = "Some" THEN "Dropped" ELSE slot

LogEntry(r, status, body) == [req |-> r, status |-> status, body |-> body]

RECURSIVE Unanswered(_)
\* The requests still queued when the server is dropped: no handler of this
\* program answers them.
Unanswered(q) ==
    IF q = <<>> THEN <<>>
    ELSE <<LogEntry(Head(q), "unanswered", <<>>)>> \o Unanswered(Tail(q))

-----------------------------------------------------------------------------
(* run_callback_server_with_html: the waiter *)

\* A closed channel is read as a default value: Ok with an empty code.
WaiterResult_DefaultOnClosed(c) ==
    IF c = NoMsg THEN OkCode(<<>>)
    ELSE IF c.kind = "Ok" THEN OkCode(c.code)
    ELSE c

\* match rx.await { Ok(Ok(d)) => Ok(d.code), Ok(Err(e)) => Err(e),
\*                  Err(_) => Err(CallbackServer("Server shut down unexpectedly")) }
WaiterResult(c) ==
    IF c = NoMsg THEN ErrCallbackServer(ServerShutDownText)
    ELSE IF c.kind = "Ok" THEN OkCode(c.code)
    ELSE c

\* rx.await is ready once a value is stored or the Sender is gone.
RxReady == chan # NoMsg \/ txSlot \in {"None", "Dropped"}

-----------------------------------------------------------------------------
(* The blocking OAuth client (src/src/blocking.rs): configuration and flow  *)

\* OAuthConfig::default()
DefaultConfig ==
    [client_id    |-> <<"app_EMoamEEZ73f0CkXaXp7hrann">>,
     auth_url     |-> <<"https://", "auth.openai.com/oauth/authorize">>,
     token_url    |-> <<"https://", "auth.openai.com/oauth/token">>,
     redirect_uri |-> <<"http://", "localhost:1455/auth/callback">>]

\* The configurations a client is built with: the default one, and one from
\* the builder whose auth_url has no scheme.
Configs ==
    {DefaultConfig,
     [DefaultConfig EXCEPT !.auth_url = <<"auth.example.com/authorize">>]}

\* Url::parse: an absolute URL begins with its scheme.
UrlParseOk(u) == u # <<>> /\ u[1] \in {"https://", "http://"}

\* What rand::thread_rng() yields, already in URL_SAFE_NO_PAD form: the state
\* of generate_random_state and the verifier of generate_pkce_pair.
RandomStates == {"st1", "st2"}

RandomVerifiers == {"ver1", "ver2"}

\* URL_SAFE_NO_PAD.encode(Sha256::digest(verifier)): the digest of a verifier
\* is a string of its own, different for different verifiers and different
\* from every verifier.
Sha256B64(verifier) ==
    CASE verifier = "ver1" -> "chal1"
      [] verifier = "ver2" -> "chal2"
      [] OTHER -> "chal0"

\* The challenge is the verifier itself.
GeneratePkcePair_NoHash(verifier) == <<verifier, verifier>>

\* generate_pkce_pair, given the random verifier: (challenge, verifier)
GeneratePkcePair(verifier) == <<Sha256B64(verifier), verifier>>

\* The pairs start_flow appends to the authorization URL, in order.
AuthorizationPairs(cfg, state, pkce_challenge) ==
    << <<"response_type", <<"code">>>>,
       <<"client_id", cfg.client_id>>,
       <<"redirect_uri", cfg.redirect_uri>>,
       <<"scope", <<"openid profile email offline_access">>>>,
       <<"code_challenge", <<pkce_challenge>>>>,
       <<"code_challenge_method", <<"S256">>>>,
       <<"state", <<state>>>>,
       <<"id_token_add_organizations", <<"true">>>>,
       <<"codex_cli_simplified_flow", <<"true">>>>,
       <<"originator", <<"codex_cli_rs">>>> >>

\* application/x-www-form-urlencoded byte serialisation of one chunk: ":" and
\* "/" are percent-encoded, a space becomes "+", and the URL-safe base64
\* alphabet, letters, digits, "_", "-" and "." pass unchanged.
FormUrlEncode(tok) ==
    CASE tok = "https://" -> "https%3A%2F%2F"
      [] tok = "http://" -> "http%3A%2F%2F"
      [] tok = "localhost:1455/auth/callback" -> "localhost%3A1455%2Fauth%2Fcallback"
      [] tok = "openid profile email offline_access" -> "openid+profile+email+offline_access"
      [] tok = "urn:ietf:params:oauth:grant-type:token-exchange"
            -> "urn%3Aietf%3Aparams%3Aoauth%3Agrant-type%3Atoken-exchange"
      [] tok = "urn:ietf:params:oauth:token-type:id_token"
            -> "urn%3Aietf%3Aparams%3Aoauth%3Atoken-type%3Aid_token"
      [] OTHER -> tok

FormUrlEncodeAll[s \in Seq(STRING)] ==
    IF s = <<>> THEN <<>> ELSE <<FormUrlEncode(Head(s))>> \o FormUrlEncodeAll[Tail(s)]

\* The serialiser behind append_pair and .form(&params): key=value pairs,
\* each side encoded, joined by "&".
FormSerialize[ps \in Seq(STRING \X Seq(STRING))] ==
    IF ps = <<>> THEN <<>>
    ELSE <<FormUrlEncode(Head(ps)[1]), "=">> \o FormUrlEncodeAll[Head(ps)[2]]
         \o (IF Len(ps) > 1 THEN <<"&">> \o FormSerialize[Tail(ps)] ELSE <<>>)

\* No OAuthFlow yet
NoFlow == [some |-> FALSE, authorization_url |-> <<>>, pkce_verifier |-> "",
           state |-> ""]

\* OAuthFlow { authorization_url: url.to_string(), pkce_verifier, state }
OAuthFlow(cfg, state, pair) ==
    [some |-> TRUE,
     authorization_url |->
         cfg.auth_url \o <<"?">> \o FormSerialize[AuthorizationPairs(cfg, state, pair[1])],
     pkce_verifier |-> pair[2],
     state |-> state]

-----------------------------------------------------------------------------
(* Results of the client's operations *)

\* TokenSet
TokenSet(access_token, id_token, refresh_token, expires_at, api_key) ==
    [access_token |-> access_token, id_token |-> id_token,
     refresh_token |-> refresh_token, expires_at |-> expires_at,
     api_key |-> api_key]

\* The place of a TokenSet in a result that carries none.
NoTokenSet == TokenSet(<<>>, None, <<>>, 0, None)

\* Nothing returned yet
NoRet == [kind |-> "None", tokens |-> NoTokenSet, value |-> <<>>, status |-> 0,
          body |-> <<>>]

\* Ok(TokenSet)
OkTokenSet(t) == [NoRet EXCEPT !.kind = "TokenSet", !.tokens = t]

\* Ok(String): the API key of obtain_api_key
OkString(s) == [NoRet EXCEPT !.kind = "String", !.value = s]

\* Ok(OAuthFlow)
OkFlow == [NoRet EXCEPT !.kind = "OAuthFlow"]

\* Err(OpenAIAuthError::Network(e)): From<reqwest::Error>, which "?" applies
\* to the error of send() and of json().
ErrNetwork(what) == [NoRet EXCEPT !.kind = "Network", !.value = <<what>>]

\* Err(OpenAIAuthError::Http { status, body })
ErrHttp(status, body) ==
    [NoRet EXCEPT !.kind = "Http", !.status = status, !.body = body]

\* Err(OpenAIAuthError::ApiKeyExchange { status, body })
ErrApiKeyExchange(status, body) ==
    [NoRet EXCEPT !.kind = "ApiKeyExchange", !.status = status, !.body = body]

\* Err(OpenAIAuthError::TokenExchange(text))
ErrTokenExchange(text) == [NoRet EXCEPT !.kind = "TokenExchange", !.value = text]

\* Err(OpenAIAuthError::UrlParse(e)): From<url::ParseError>
ErrUrlParse == [NoRet EXCEPT !.kind = "UrlParse"]

MissingIdTokenText == <<"missing id_token for api key exchange">>

IsOk(r) == r.kind \in {"TokenSet", "String", "OAuthFlow"}

-----------------------------------------------------------------------------
(* What the token endpoint answers *)

\* An Option<u64>
NoneU64 == [some |-> FALSE, v |-> 0]

SomeU64(n) == [some |-> TRUE, v |-> n]

\* A body that is not JSON (or not a JSON object)
NotJson == [valid |-> FALSE, access_token |-> None, id_token |-> None,
            refresh_token |-> None, expires_in |-> NoneU64]

\* A JSON object, seen through the four members the client looks for; a
\* member that is absent or null is None.
JsonObject(access_token, id_token, refresh_token, expires_in) ==
    [valid |-> TRUE, access_token |-> access_token, id_token |-> id_token,
     refresh_token |-> refresh_token, expires_in |-> expires_in]

\* Bodies: the bytes as text, and what they are as JSON.
FullBody ==
    [raw |-> <<"{access_token,id_token,refresh_token,expires_in}">>,
     json |-> JsonObject(Some(<<"at1">>), Some(<<"idt1">>), Some(<<"rt1">>),
                         SomeU64(60))]

BareBody ==
    [raw |-> <<"{access_token}">>,
     json |-> JsonObject(Some(<<"at2">>), None, None, NoneU64)]

ErrorBody ==
    [raw |-> <<"{error:invalid_grant}">>,
     json |-> JsonObject(None, None, None, NoneU64)]

TextBody == [raw |-> <<"Bad Gateway">>, json |-> NotJson]

\* The full answer with the largest lifetime a u64 holds
LongLivedBody ==
    [raw |-> <<"{access_token,id_token,refresh_token,expires_in:max}">>,
     json |-> JsonObject(Some(<<"at3">>), Some(<<"idt3">>), Some(<<"rt3">>),
                         SomeU64(U64Modulus - 1))]

\* send() failed: there is no response.
NoResponse == [sent |-> FALSE, status |-> 0, text |-> None, json |-> NotJson]

\* A response whose body can be read.
Response(status, b) ==
    [sent |-> TRUE, status |-> status, text |-> Some(b.raw), json |-> b.json]

\* A response whose body cannot be read: the connection breaks after the
\* status line and headers.
TruncatedResponse(status) ==
    [sent |-> TRUE, status |-> status, text |-> None, json |-> NotJson]

Responses ==
    {NoResponse,
     Response(200, FullBody), Response(201, FullBody),
     Response(200, BareBody), Response(200, LongLivedBody),
     Response(200, ErrorBody),
     Response(200, TextBody),
     Response(400, ErrorBody), Response(502, TextBody),
     TruncatedResponse(200), TruncatedResponse(400)}

\* StatusCode::is_success
IsSuccess(status) == status >= 200 /\ status <= 299

\* What SystemTime::now() reads, in seconds since the epoch.
Clocks == {1000, 2000}

\* response.expires_in.unwrap_or(3600)
DefaultExpiresIn == 3600

\* response.json::<TokenResponse>() and response.json::<ExchangeResponse>():
\* the body is read and parsed, and access_token is the one required member.
JsonDecodes(resp) ==
    resp.text.some /\ resp.json.valid /\ resp.json.access_token.some

\* response.expires_in.unwrap_or(3600)
Lifetime(token_response) ==
    IF token_response.expires_in.some THEN token_response.expires_in.v
    ELSE DefaultExpiresIn

\* now + lifetime does not fit a u64.
ExpiresAtOverflows(token_response, clock) ==
    clock + Lifetime(token_response) >= U64Modulus

\* impl From<TokenResponse> for TokenSet, where it returns: the u64 sum wraps
\* when overflow is not checked.
TokenSetFrom(token_response, clock) ==
    TokenSet(token_response.access_token.v,
             token_response.id_token,
             UnwrapOrEmpty(token_response.refresh_token),
             (clock + Lifetime(token_response)) % U64Modulus,
             None)

\* The "+" of TokenSet::from panics ("attempt to add with overflow") and the
\* thread unwinds out of the operation.
Panicked == [NoRet EXCEPT !.kind = "Panic"]

-----------------------------------------------------------------------------
(* The requests the client sends and what it makes of the answers *)

\* The form exchange_code posts to token_url
ExchangeCodeRequest(cfg, code, verifier) ==
    [fn |-> "exchange_code", url |-> cfg.token_url,
     form |-> << <<"grant_type", <<"authorization_code">>>>,
                 <<"client_id", cfg.client_id>>,
                 <<"code", code>>,
                 <<"code_verifier", <<verifier>>>>,
                 <<"redirect_uri", cfg.redirect_uri>> >>]

\* The form obtain_api_key posts to token_url
ObtainApiKeyRequest(cfg, id_token) ==
    [fn |-> "obtain_api_key", url |-> cfg.token_url,
     form |-> << <<"grant_type", <<"urn:ietf:params:oauth:grant-type:token-exchange">>>>,
                 <<"client_id", cfg.client_id>>,
                 <<"requested_token", <<"openai-api-key">>>>,
                 <<"subject_token", id_token>>,
                 <<"subject_token_type", <<"urn:ietf:params:oauth:token-type:id_token">>>> >>]

\* The form refresh_token posts to token_url
RefreshTokenRequest(cfg, refresh_token) ==
    [fn |-> "refresh_token", url |-> cfg.token_url,
     form |-> << <<"grant_type", <<"refresh_token">>>>,
                 <<"refresh_token", refresh_token>>,
                 <<"client_id", cfg.client_id>> >>]

\* A non-2xx answer to exchange_code is reported as ApiKeyExchange.
ExchangeCode_AsApiKeyExchange(resp, clock) ==
    IF ~resp.sent THEN ErrNetwork("send")
    ELSE IF ~IsSuccess(resp.status)
    THEN ErrApiKeyExchange(resp.status, UnwrapOrEmpty(resp.text))
    ELSE IF ~JsonDecodes(resp) THEN ErrNetwork("decode")
    ELSE IF overflow_checks /\ ExpiresAtOverflows(resp.json, clock) THEN Panicked
    ELSE OkTokenSet(TokenSetFrom(resp.json, clock))

\* exchange_code from send()? on: the answer resp, read at time clock
ExchangeCode(resp, clock) ==
    IF ~resp.sent THEN ErrNetwork("send")
    ELSE IF ~IsSuccess(resp.status)
    THEN ErrHttp(resp.status, UnwrapOrEmpty(resp.text))
    ELSE IF ~JsonDecodes(resp) THEN ErrNetwork("decode")
    ELSE IF overflow_checks /\ ExpiresAtOverflows(resp.json, clock) THEN Panicked
    ELSE OkTokenSet(TokenSetFrom(resp.json, clock))

\* obtain_api_key from send()? on
ObtainApiKey(resp) ==
    IF ~resp.sent THEN ErrNetwork("send")
    ELSE IF ~IsSuccess(resp.status)
    THEN ErrHttp(resp.status, UnwrapOrEmpty(resp.text))
    ELSE IF ~JsonDecodes(resp) THEN ErrNetwork("decode")
    ELSE OkString(resp.json.access_token.v)

\* A non-2xx answer to refresh_token is reported as Http.
RefreshToken_AsHttp(resp, clock) ==
    IF ~resp.sent THEN ErrNetwork("send")
    ELSE IF ~IsSuccess(resp.status)
    THEN ErrHttp(resp.status, UnwrapOrEmpty(resp.text))
    ELSE IF ~JsonDecodes(resp) THEN ErrNetwork("decode")
    ELSE IF overflow_checks /\ ExpiresAtOverflows(resp.json, clock) THEN Panicked
    ELSE OkTokenSet(TokenSetFrom(resp.json, clock))

\* refresh_token from send()? on
RefreshToken(resp, clock) ==
    IF ~resp.sent THEN ErrNetwork("send")
    ELSE IF ~IsSuccess(resp.status)
    THEN ErrApiKeyExchange(resp.status, UnwrapOrEmpty(resp.text))
    ELSE IF ~JsonDecodes(resp) THEN ErrNetwork("decode")
    ELSE IF overflow_checks /\ ExpiresAtOverflows(resp.json, clock) THEN Panicked
    ELSE OkTokenSet(TokenSetFrom(resp.json, clock))

\* No TokenSet held
NoTokens == [some |-> FALSE, v |-> NoTokenSet]

\* The api key also replaces the access token.
SetApiKey_OverAccessToken(t, api_key) ==
    [t EXCEPT !.access_token = api_key, !.api_key = Some(api_key)]

\* tokens.api_key = Some(api_key)
SetApiKey(t, api_key) == [t EXCEPT !.api_key = Some(api_key)]

\* The arguments of the call in progress; a member that the operation does
\* not take is empty.
Args(code, verifier, id_token, refresh_token) ==
    [code |-> code, verifier |-> verifier, id_token |-> id_token,
     refresh_token |-> refresh_token]

NoArgs == Args(<<>>, "", <<>>, <<>>)

\* What callers pass: the code the redirect carried, an id_token and a
\* refresh_token from an earlier TokenSet.
Codes == {<<"abc">>}

IdTokens == {<<"idt1">>}

RefreshTokens == {<<"rt1">>}

\* The verifier a caller passes to the exchange: the flow's, or one of its
\* own when it never started a flow.
Verifiers == IF flow.some THEN {flow.pkce_verifier} ELSE {"ver1"}

-----------------------------------------------------------------------------
(* TokenSet::expires_in and TokenSet::is_expired (src/src/types.rs)          *)

\* Duration::from_secs(300): the safety buffer of is_expired, in seconds
ExpiryBuffer == 300

\* The subtraction is done whatever the clock says, and wraps.
ExpiresIn_Wrapping(t, clock) == (t.expires_at + U64Modulus - clock) % U64Modulus

\* expires_in, read at time clock, in seconds
ExpiresIn(t, clock) ==
    IF t.expires_at > clock THEN t.expires_at - clock ELSE 0

\* The buffer is exclusive.
IsExpired_Strict(t, clock) == ExpiresIn(t, clock) < ExpiryBuffer

\* is_expired, read at time clock
IsExpired(t, clock) == ExpiresIn(t, clock) <= ExpiryBuffer

\* The expires_at of the TokenSets a caller holds from earlier runs
\* (TokenSet is Deserialize and its fields are public).
ExpiryTimes == {0, 1000, 1300, 1301, 1600, 4600}

\* A stored TokenSet with the given expires_at
StoredTokenSet(expires_at) ==
    TokenSet(<<"at0">>, None, <<"rt0">>, expires_at, None)

\* By how many seconds the clock moves between two looks at it.
Advances == {1, 300}

\* One look at a TokenSet: the clock, expires_in() and is_expired()
Reading(t, clock) ==
    [at |-> clock, expires_in |-> ExpiresIn(t, clock),
     is_expired |-> IsExpired(t, clock)]

-----------------------------------------------------------------------------
(* extract_account_id (src/src/jwt.rs)                                       *)

\* A token as decode::<Claims> sees it: how many "."-separated segments it
\* has, whether header and payload are base64url JSON objects, and in the
\* payload the member "https://api.openai.com/auth": absent, an object, or a
\* value of another type; in that object chatgpt_account_id, if any.
Jwt(segments, header_ok, payload_ok, auth, account) ==
    [segments |-> segments, header_ok |-> header_ok, payload_ok |-> payload_ok,
     auth |-> auth, chatgpt_account_id |-> account]

Jwts ==
    {Jwt(1, FALSE, FALSE, "absent", None),
     Jwt(3, FALSE, TRUE, "object", Some(<<"acct_123">>)),
     Jwt(3, TRUE, FALSE, "absent", None),
     Jwt(3, TRUE, TRUE, "string", None),
     Jwt(3, TRUE, TRUE, "absent", None),
     Jwt(3, TRUE, TRUE, "object", None),
     Jwt(3, TRUE, TRUE, "object", Some(<<>>)),
     Jwt(3, TRUE, TRUE, "object", Some(<<"acct_123">>))}

\* decode::<Claims>(token, key, validation) is Ok: three segments, a header
\* and a payload that parse, and an auth member that is absent or an object.
JwtDecodes(token) ==
    /\ token.segments = 3
    /\ token.header_ok
    /\ token.payload_ok
    /\ token.auth \in {"absent", "object"}

\* Err(OpenAIAuthError::JwtDecode(e)): From<jsonwebtoken::errors::Error>
ErrJwtDecode == [NoRet EXCEPT !.kind = "JwtDecode"]

\* Err(OpenAIAuthError::MissingJwtClaim(text))
ErrMissingJwtClaim(text) == [NoRet EXCEPT !.kind = "MissingJwtClaim", !.value = text]

\* extract_account_id
ExtractAccountId(token) ==
    IF ~JwtDecodes(token) THEN ErrJwtDecode
    ELSE IF token.auth = "object" /\ token.chatgpt_account_id.some
    THEN OkString(token.chatgpt_account_id.v)
    ELSE ErrMissingJwtClaim(<<"chatgpt_account_id">>)

\* No call of extract_account_id yet
NoJwtCall == [called |-> FALSE, token |-> Jwt(0, FALSE, FALSE, "absent", None),
              ret |-> NoRet]

-----------------------------------------------------------------------------
(* generate_pkce_pair at the level of bytes (src/src/types.rs).  A string is *)
(* the sequence of its ASCII codes here.                                     *)

\* The 6-bit groups of a byte string, most significant bits first; a last
\* group of one or two bytes gives two or three groups, the unused low bits
\* zero.
Sextets[bytes \in Seq(Nat)] ==
    IF Len(bytes) = 0 THEN <<>>
    ELSE IF Len(bytes) = 1
    THEN <<bytes[1] \div 4, (bytes[1] % 4) * 16>>
    ELSE IF Len(bytes) = 2
    THEN <<bytes[1] \div 4, (bytes[1] % 4) * 16 + bytes[2] \div 16,
           (bytes[2] % 16) * 4>>
    ELSE <<bytes[1] \div 4, (bytes[1] % 4) * 16 + bytes[2] \div 16,
           (bytes[2] % 16) * 4 + bytes[3] \div 64, bytes[3] % 64>>
         \o Sextets[SubSeq(bytes, 4, Len(bytes))]

\* The URL-safe alphabet: A-Z, a-z, 0-9, "-", "_"
UrlSafeChar(x) ==
    IF x < 26 THEN 65 + x
    ELSE IF x < 52 THEN 97 + (x - 26)
    ELSE IF x < 62 THEN 48 + (x - 52)
    ELSE IF x = 62 THEN 45
    ELSE 95

\* The standard alphabet: "+" and "/" in place of "-" and "_"
StandardChar(x) ==
    IF x = 62 THEN 43 ELSE IF x = 63 THEN 47 ELSE UrlSafeChar(x)

UrlSafeChars[x \in Seq(Nat)] ==
    IF x = <<>> THEN <<>> ELSE <<UrlSafeChar(Head(x))>> \o UrlSafeChars[Tail(x)]

StandardChars[x \in Seq(Nat)] ==
    IF x = <<>> THEN <<>> ELSE <<StandardChar(Head(x))>> \o StandardChars[Tail(x)]

\* The standard alphabet is used.
Base64UrlNoPad_Standard(bytes) == StandardChars[Sextets[bytes]]

\* general_purpose::URL_SAFE_NO_PAD.encode(bytes)
Base64UrlNoPad(bytes) == UrlSafeChars[Sextets[bytes]]

\* Sha256::digest(msg).  The 32 bytes are a stand-in for the real digest: a
\* deterministic function of the whole message that tells apart the messages
\* of this model.
Sha256Mix[msg \in Seq(Nat)] ==
    IF msg = <<>> THEN 7
    ELSE (Sha256Mix[SubSeq(msg, 1, Len(msg) - 1)] * 31 + msg[Len(msg)]) % 65521

Sha256Bytes[mix \in Nat, k \in Nat] ==
    IF k = 0 THEN <<>>
    ELSE Sha256Bytes[mix, k - 1] \o <<(mix * k + k * k) % 256>>

Sha256Digest(msg) == Sha256Bytes[Sha256Mix[msg], 32]

\* What thread_rng().fill_bytes(&mut bytes) leaves in the 32-byte array
RandomBytes ==
    {[i \in 1..32 |-> 0], [i \in 1..32 |-> 255],
     [i \in 1..32 |-> (i * 83 + 251) % 256]}

\* generate_pkce_pair, given the random bytes: (challenge, verifier)
PkcePairFromBytes(bytes) ==
    <<Base64UrlNoPad(Sha256Digest(Base64UrlNoPad(bytes))), Base64UrlNoPad(bytes)>>

\* No call of generate_pkce_pair yet
NoPkce == [called |-> FALSE, bytes |-> <<>>, challenge |-> <<>>, verifier |-> <<>>]

-----------------------------------------------------------------------------
(* Initial state: run_callback_server has been called and has returned its   *)
(* future, which nobody has polled yet.                                      *)

\* The future of run_callback_server exists and nobody has polled it.
CallbackIdle ==
    /\ callerPc = "created"
    /\ result = NoMsg
    /\ exchanged = None
    /\ workerPc = "none"
    /\ workerRet = NoMsg
    /\ txSlot = "NoChannel"
    /\ chan = NoMsg
    /\ inbox = <<>>
    /\ nArrived = 0
    /\ pending = <<>>
    /\ classified = <<>>
    /\ sent = <<>>
    /\ delivered = <<>>
    /\ log = <<>>

\* An OAuthClient with the default configuration on which nothing was called.
ClientIdle ==
    /\ config = DefaultConfig
    /\ now = CHOOSE t \in Clocks : TRUE
    /\ flow = NoFlow
    /\ clientPc = "idle"
    /\ opCalled = "none"
    /\ leg = "none"
    /\ args = NoArgs
    /\ tokens = NoTokens
    /\ wire = <<>>
    /\ replies = <<>>
    /\ ret = NoRet
    /\ nCalls = 0
    /\ overflow_checks = FALSE

\* No pure function has been called.
LibIdle ==
    /\ held = NoTokens
    /\ readings = <<>>
    /\ nTicks = 0
    /\ jwt = NoJwtCall
    /\ pkce = NoPkce

Init ==
    /\ expected_state \in ExpectedStates
    /\ html_responder \in Responders
    /\ CallbackIdle
    /\ ClientIdle
    /\ LibIdle

-----------------------------------------------------------------------------
(* The caller *)

\* The first poll of the future (code_future.await): the channel and the
\* ServerState are built, the worker is spawned, and the caller waits on rx.
CallerPoll ==
    /\ callerPc = "created"
    /\ callerPc' = "waiting"
    /\ txSlot' = "Some"
    /\ workerPc' = "spawned"
    /\ UNCHANGED <<expected_state, html_responder, result, exchanged, workerRet,
                   chan, inbox, nArrived, pending, classified, sent, delivered, log>>
    /\ UNCHANGED exVars
    /\ UNCHANGED libVars

\* The caller drops the future (a timeout around the await): the Receiver and
\* any value stored in the channel go with it.
CallerAbandon ==
    /\ callerPc \in {"created", "waiting"}
    /\ callerPc' = "abandoned"
    /\ chan' = NoMsg
    /\ UNCHANGED <<expected_state, html_responder, result, exchanged, workerPc,
                   workerRet, txSlot, inbox, nArrived, pending, classified, sent,
                   delivered, log>>
    /\ UNCHANGED exVars
    /\ UNCHANGED libVars

\* rx.await completes and run_callback_server_with_html returns.
WaiterReceive ==
    /\ callerPc = "waiting"
    /\ RxReady
    /\ callerPc' = "done"
    /\ result' = WaiterResult(chan)
    /\ delivered' = IF chan # NoMsg THEN Append(delivered, chan) ELSE delivered
    /\ chan' = NoMsg
    /\ UNCHANGED <<expected_state, html_responder, exchanged, workerPc, workerRet,
                   txSlot, inbox, nArrived, pending, classified, sent, log>>
    /\ UNCHANGED exVars
    /\ UNCHANGED libVars

\* let code = code_future.await?; client.exchange_code(&code, &flow.pkce_verifier)
CallerExchange ==
    /\ callerPc = "done"
    /\ result.kind = "Ok"
    /\ callerPc' = "exchanging"
    /\ exchanged' = Some(result.code)
    /\ UNCHANGED <<expected_state, html_responder, result, workerPc, workerRet,
                   txSlot, chan, inbox, nArrived, pending, classified, sent,
                   delivered, log>>
    /\ UNCHANGED exVars
    /\ UNCHANGED libVars

-----------------------------------------------------------------------------
(* Clients *)

\* The newest request is put at the front of the queue.
Arrive_Front(r) ==
    /\ nArrived < MaxRequests
    /\ nArrived' = nArrived + 1
    /\ IF PortBound
       THEN inbox' = <<r>> \o inbox /\ log' = log
       ELSE inbox' = inbox /\ log' = Append(log, LogEntry(r, "refused", <<>>))
    /\ UNCHANGED <<expected_state, html_responder, callerPc, result, exchanged,
                   workerPc, workerRet, txSlot, chan, pending, classified, sent,
                   delivered>>
    /\ UNCHANGED exVars
    /\ UNCHANGED libVars

\* A client sends request r to 127.0.0.1:port.  It is queued when the socket
\* is bound and refused otherwise.
Arrive(r) ==
    /\ nArrived < MaxRequests
    /\ nArrived' = nArrived + 1
    /\ IF PortBound
       THEN inbox' = Append(inbox, r) /\ log' = log
       ELSE inbox' = inbox /\ log' = Append(log, LogEntry(r, "refused", <<>>))
    /\ UNCHANGED <<expected_state, html_responder, callerPc, result, exchanged,
                   workerPc, workerRet, txSlot, chan, pending, classified, sent,
                   delivered>>
    /\ UNCHANGED exVars
    /\ UNCHANGED libVars

-----------------------------------------------------------------------------
(* The worker: run_sync_server *)

\* Server::http(addr) succeeds.
BindOk ==
    /\ workerPc = "spawned"
    /\ workerPc' = "listening"
    /\ UNCHANGED <<expected_state, html_responder, callerPc, result, exchanged,
                   workerRet, txSlot, chan, inbox, nArrived, pending, classified,
                   sent, delivered, log>>
    /\ UNCHANGED exVars
    /\ UNCHANGED libVars

\* The bind error is noted and the worker listens on another port instead.
BindFail_FallbackPort ==
    /\ workerPc = "spawned"
    /\ workerPc' = "listening"
    /\ workerRet' = ErrCallbackServer(BindFailedText)
    /\ UNCHANGED <<expected_state, html_responder, callerPc, result, exchanged,
                   txSlot, chan, inbox, nArrived, pending, classified, sent,
                   delivered, log>>
    /\ UNCHANGED exVars
    /\ UNCHANGED libVars

\* Server::http(addr) fails: run_sync_server returns the bind error through
\* "?", into the JoinHandle nobody holds, and the ServerState is dropped.
BindFail ==
    /\ workerPc = "spawned"
    /\ workerPc' = "failed"
    /\ workerRet' = ErrCallbackServer(BindFailedText)
    /\ txSlot' = DropServerState(txSlot)
    /\ UNCHANGED <<expected_state, html_responder, callerPc, result, exchanged,
                   chan, inbox, nArrived, pending, classified, sent, delivered, log>>
    /\ UNCHANGED exVars
    /\ UNCHANGED libVars

\* incoming_requests() ends (the server's receive failed): the loop is left
\* and run_sync_server returns Ok(()) with no request classified.
AcceptError ==
    /\ workerPc = "listening"
    /\ workerPc' = "closed"
    /\ workerRet' = OkCode(<<>>)
    /\ txSlot' = DropServerState(txSlot)
    /\ inbox' = <<>>
    /\ log' = log \o Unanswered(inbox)
    /\ UNCHANGED <<expected_state, html_responder, callerPc, result, exchanged,
                   chan, nArrived, pending, classified, sent, delivered>>
    /\ UNCHANGED exVars
    /\ UNCHANGED libVars

\* The else branch of the loop: a URL that is not a callback URL gets a 404.
NotFound ==
    /\ workerPc = "listening"
    /\ inbox # <<>>
    /\ ~IsCallbackUrl(RequestUrl(Head(inbox)))
    /\ inbox' = Tail(inbox)
    /\ log' = Append(log, LogEntry(Head(inbox), "404", <<"Not Found">>))
    /\ UNCHANGED <<expected_state, html_responder, callerPc, result, exchanged,
                   workerPc, workerRet, txSlot, chan, nArrived, pending,
                   classified, sent, delivered>>
    /\ UNCHANGED exVars
    /\ UNCHANGED libVars

\* handle_callback_request up to and including process_callback: the query
\* is what lies between the first and the second "?", parsed by querify; the
\* request is classified and the outcome is sent; the response is not written
\* yet.  A panic unwinds the worker and drops server and ServerState.
HandleCallback ==
    /\ workerPc = "listening"
    /\ inbox # <<>>
    /\ IsCallbackUrl(RequestUrl(Head(inbox)))
    /\ \E url \in {RequestUrl(Head(inbox))} :
       \E params \in {Querify(Nth1OrEmpty(Split[url, "?"]))} :
       \E out \in {ProcessCallback(FindParam(params, "code"),
                                   FindParam(params, "state"),
                                   FindParam(params, "error"),
                                   expected_state, html_responder, txSlot,
                                   callerPc = "waiting")} :
          /\ classified' = Append(classified,
                                  [req |-> Head(inbox), event |-> out.event,
                                   msg |-> out.msg, stored |-> out.stored,
                                   stop |-> out.stop])
          /\ chan' = (IF out.stored THEN out.chan ELSE chan)
          /\ sent' = (IF out.stored THEN Append(sent, out.msg) ELSE sent)
          /\ workerPc' = (IF out.panic THEN "panicked" ELSE "responding")
          /\ txSlot' = (IF out.panic THEN DropServerState(out.slot) ELSE out.slot)
          /\ pending' = (IF out.panic THEN <<>>
                         ELSE <<[req |-> Head(inbox), html |-> out.html,
                                 stop |-> out.stop]>>)
          /\ inbox' = (IF out.panic THEN <<>> ELSE Tail(inbox))
          /\ log' = (IF out.panic THEN log \o Unanswered(inbox) ELSE log)
    /\ UNCHANGED <<expected_state, html_responder, callerPc, result, exchanged,
                   workerRet, nArrived, delivered>>
    /\ UNCHANGED exVars
    /\ UNCHANGED libVars

\* The break is missing: after the response the loop goes on, whatever
\* should_stop says.
Respond_KeepListening ==
    /\ workerPc = "responding"
    /\ workerPc' = "listening"
    /\ log' = Append(log, LogEntry(pending[1].req, "200", pending[1].html))
    /\ pending' = <<>>
    /\ UNCHANGED <<expected_state, html_responder, callerPc, result, exchanged,
                   workerRet, txSlot, chan, inbox, nArrived, classified, sent,
                   delivered>>
    /\ UNCHANGED exVars
    /\ UNCHANGED libVars

\* request.respond(html), then should_stop decides: break, return Ok(()) and
\* drop server and ServerState, or go back to the loop.
Respond ==
    /\ workerPc = "responding"
    /\ LET p == pending[1]
       IN  IF p.stop
           THEN /\ workerPc' = "stopped"
                /\ workerRet' = OkCode(<<>>)
                /\ txSlot' = DropServerState(txSlot)
                /\ inbox' = <<>>
                /\ log' = Append(log, LogEntry(p.req, "200", p.html)) \o Unanswered(inbox)
           ELSE /\ workerPc' = "listening"
                /\ log' = Append(log, LogEntry(p.req, "200", p.html))
                /\ UNCHANGED <<workerRet, txSlot, inbox>>
    /\ pending' = <<>>
    /\ UNCHANGED <<expected_state, html_responder, callerPc, result, exchanged,
                   chan, nArrived, classified, sent, delivered>>
    /\ UNCHANGED exVars
    /\ UNCHANGED libVars

-----------------------------------------------------------------------------
(* The blocking client's operations, one call at a time *)

\* .send(): the request goes out as part of call number n.
OnWire(n, req) == [call |-> n, fn |-> req.fn, url |-> req.url, form |-> req.form]

\* start_flow
StartFlow ==
    /\ clientPc = "idle"
    /\ nCalls < MaxCalls
    /\ nCalls' = nCalls + 1
    /\ opCalled' = "start_flow"
    /\ args' = NoArgs
    /\ replies' = <<>>
    /\ \E state \in RandomStates : \E verifier \in RandomVerifiers :
          IF UrlParseOk(config.auth_url)
          THEN /\ flow' = OAuthFlow(config, state, GeneratePkcePair(verifier))
               /\ ret' = OkFlow
          ELSE /\ flow' = flow
               /\ ret' = ErrUrlParse
    /\ UNCHANGED <<overflow_checks, config, now, clientPc, leg, tokens, wire>>
    /\ UNCHANGED cbVars
    /\ UNCHANGED libVars

\* exchange_code(code, verifier) up to send()
CallExchangeCode(code, verifier) ==
    /\ clientPc = "idle"
    /\ nCalls < MaxCalls
    /\ nCalls' = nCalls + 1
    /\ opCalled' = "exchange_code"
    /\ args' = Args(code, verifier, <<>>, <<>>)
    /\ replies' = <<>>
    /\ ret' = NoRet
    /\ wire' = Append(wire, OnWire(nCalls + 1, ExchangeCodeRequest(config, code, verifier)))
    /\ leg' = "exchange_code"
    /\ clientPc' = "awaiting"
    /\ UNCHANGED <<overflow_checks, config, flow, now, tokens>>
    /\ UNCHANGED cbVars
    /\ UNCHANGED libVars

\* exchange_code_for_api_key(code, verifier) up to the send() of its first leg
CallExchangeCodeForApiKey(code, verifier) ==
    /\ clientPc = "idle"
    /\ nCalls < MaxCalls
    /\ nCalls' = nCalls + 1
    /\ opCalled' = "exchange_code_for_api_key"
    /\ args' = Args(code, verifier, <<>>, <<>>)
    /\ replies' = <<>>
    /\ ret' = NoRet
    /\ wire' = Append(wire, OnWire(nCalls + 1, ExchangeCodeRequest(config, code, verifier)))
    /\ leg' = "exchange_code"
    /\ clientPc' = "awaiting"
    /\ UNCHANGED <<overflow_checks, config, flow, now, tokens>>
    /\ UNCHANGED cbVars
    /\ UNCHANGED libVars

\* obtain_api_key(id_token) up to send()
CallObtainApiKey(id_token) ==
    /\ clientPc = "idle"
    /\ nCalls < MaxCalls
    /\ nCalls' = nCalls + 1
    /\ opCalled' = "obtain_api_key"
    /\ args' = Args(<<>>, "", id_token, <<>>)
    /\ replies' = <<>>
    /\ ret' = NoRet
    /\ wire' = Append(wire, OnWire(nCalls + 1, ObtainApiKeyRequest(config, id_token)))
    /\ leg' = "obtain_api_key"
    /\ clientPc' = "awaiting"
    /\ UNCHANGED <<overflow_checks, config, flow, now, tokens>>
    /\ UNCHANGED cbVars
    /\ UNCHANGED libVars

\* refresh_token(refresh_token) up to send()
CallRefreshToken(refresh_token) ==
    /\ clientPc = "idle"
    /\ nCalls < MaxCalls
    /\ nCalls' = nCalls + 1
    /\ opCalled' = "refresh_token"
    /\ args' = Args(<<>>, "", <<>>, refresh_token)
    /\ replies' = <<>>
    /\ ret' = NoRet
    /\ wire' = Append(wire, OnWire(nCalls + 1, RefreshTokenRequest(config, refresh_token)))
    /\ leg' = "refresh_token"
    /\ clientPc' = "awaiting"
    /\ UNCHANGED <<overflow_checks, config, flow, now, tokens>>
    /\ UNCHANGED cbVars
    /\ UNCHANGED libVars

\* The call ends and r is what the caller gets; locals are dropped.  A
\* panic ends the caller's thread as well.
Return(r) ==
    /\ ret' = r
    /\ clientPc' = (IF r = Panicked THEN "panicked" ELSE "idle")
    /\ leg' = "none"
    /\ tokens' = NoTokens
    /\ wire' = wire

\* A failed send() is tried once more before the error is returned.
ExchangeCodeReturns_RetryOnNetwork(resp) ==
    /\ clientPc = "awaiting"
    /\ leg = "exchange_code"
    /\ replies' = Append(replies, resp)
    /\ \E r \in {ExchangeCode(resp, now)} :
          IF ~resp.sent /\ replies = <<>>
          THEN /\ wire' = Append(wire, OnWire(nCalls,
                                   ExchangeCodeRequest(config, args.code, args.verifier)))
               /\ UNCHANGED <<clientPc, ret, leg, tokens>>
          ELSE IF opCalled = "exchange_code" \/ ~IsOk(r)
          THEN Return(r)
          ELSE IF ~r.tokens.id_token.some
          THEN Return(ErrTokenExchange(MissingIdTokenText))
          ELSE /\ tokens' = [some |-> TRUE, v |-> r.tokens]
               /\ wire' = Append(wire, OnWire(nCalls,
                                   ObtainApiKeyRequest(config, r.tokens.id_token.v)))
               /\ leg' = "obtain_api_key"
               /\ UNCHANGED <<clientPc, ret>>
    /\ UNCHANGED <<overflow_checks, config, flow, now, opCalled, args, nCalls>>
    /\ UNCHANGED cbVars
    /\ UNCHANGED libVars

\* exchange_code from the answer to its return.  Called on its own, its
\* result is the caller's.  As the first leg of exchange_code_for_api_key an
\* error goes on to the caller through "?", a TokenSet without id_token ends
\* the call with TokenExchange, and one with an id_token is kept in tokens
\* while obtain_api_key sends its request.
ExchangeCodeReturns(resp) ==
    /\ clientPc = "awaiting"
    /\ leg = "exchange_code"
    /\ replies' = Append(replies, resp)
    /\ \E r \in {ExchangeCode(resp, now)} :
          IF opCalled = "exchange_code" \/ ~IsOk(r)
          THEN Return(r)
          ELSE IF ~r.tokens.id_token.some
          THEN Return(ErrTokenExchange(MissingIdTokenText))
          ELSE /\ tokens' = [some |-> TRUE, v |-> r.tokens]
               /\ wire' = Append(wire, OnWire(nCalls,
                                   ObtainApiKeyRequest(config, r.tokens.id_token.v)))
               /\ leg' = "obtain_api_key"
               /\ UNCHANGED <<clientPc, ret>>
    /\ UNCHANGED <<overflow_checks, config, flow, now, opCalled, args, nCalls>>
    /\ UNCHANGED cbVars
    /\ UNCHANGED libVars

\* When the second leg fails, the first leg's TokenSet is returned as it is.
ObtainApiKeyReturns_KeepTokens(resp) ==
    /\ clientPc = "awaiting"
    /\ leg = "obtain_api_key"
    /\ replies' = Append(replies, resp)
    /\ \E r \in {ObtainApiKey(resp)} :
          IF opCalled = "obtain_api_key"
          THEN Return(r)
          ELSE IF ~IsOk(r)
          THEN Return(OkTokenSet(tokens.v))
          ELSE Return(OkTokenSet(SetApiKey(tokens.v, r.value)))
    /\ UNCHANGED <<overflow_checks, config, flow, now, opCalled, args, nCalls>>
    /\ UNCHANGED cbVars
    /\ UNCHANGED libVars

\* obtain_api_key from the answer to its return, and, as the second leg, the
\* rest of exchange_code_for_api_key.
ObtainApiKeyReturns(resp) ==
    /\ clientPc = "awaiting"
    /\ leg = "obtain_api_key"
    /\ replies' = Append(replies, resp)
    /\ \E r \in {ObtainApiKey(resp)} :
          IF opCalled = "obtain_api_key" \/ ~IsOk(r)
          THEN Return(r)
          ELSE Return(OkTokenSet(SetApiKey(tokens.v, r.value)))
    /\ UNCHANGED <<overflow_checks, config, flow, now, opCalled, args, nCalls>>
    /\ UNCHANGED cbVars
    /\ UNCHANGED libVars

\* refresh_token from the answer to its return
RefreshTokenReturns(resp) ==
    /\ clientPc = "awaiting"
    /\ leg = "refresh_token"
    /\ replies' = Append(replies, resp)
    /\ Return(RefreshToken(resp, now))
    /\ UNCHANGED <<overflow_checks, config, flow, now, opCalled, args, nCalls>>
    /\ UNCHANGED cbVars
    /\ UNCHANGED libVars

-----------------------------------------------------------------------------
(* A caller of the library's pure functions: it loads a stored TokenSet and *)
(* looks at its expiry as time passes, extracts account ids, and generates  *)
(* PKCE pairs.                                                               *)

\* The caller deserialises a TokenSet it stored earlier.
LoadTokenSet(expires_at) ==
    /\ ~held.some
    /\ held' = [some |-> TRUE, v |-> StoredTokenSet(expires_at)]
    /\ UNCHANGED <<now, readings, nTicks, jwt, pkce>>
    /\ UNCHANGED <<cbVars, clientRest>>

\* The wall clock moves on.
Tick(d) ==
    /\ nTicks < MaxTicks
    /\ nTicks' = nTicks + 1
    /\ now' = now + d
    /\ UNCHANGED <<held, readings, jwt, pkce>>
    /\ UNCHANGED <<cbVars, clientRest>>

\* tokens.expires_in() and tokens.is_expired()
ReadExpiry ==
    /\ held.some
    /\ Len(readings) < MaxReads
    /\ readings' = Append(readings, Reading(held.v, now))
    /\ UNCHANGED <<now, held, nTicks, jwt, pkce>>
    /\ UNCHANGED <<cbVars, clientRest>>

\* extract_account_id(token)
CallExtractAccountId(token) ==
    /\ ~jwt.called
    /\ jwt' = [called |-> TRUE, token |-> token, ret |-> ExtractAccountId(token)]
    /\ UNCHANGED <<now, held, readings, nTicks, pkce>>
    /\ UNCHANGED <<cbVars, clientRest>>

\* generate_pkce_pair()
CallGeneratePkcePair(bytes) ==
    /\ ~pkce.called
    /\ \E pair \in {PkcePairFromBytes(bytes)} :
          pkce' = [called |-> TRUE, bytes |-> bytes,
                   challenge |-> pair[1], verifier |-> pair[2]]
    /\ UNCHANGED <<now, held, readings, nTicks, jwt>>
    /\ UNCHANGED <<cbVars, clientRest>>

-----------------------------------------------------------------------------

Next ==
    \/ CallerPoll
    \/ CallerAbandon
    \/ WaiterReceive
    \/ CallerExchange
    \/ \E r \in Requests : Arrive(r)
    \/ BindOk
    \/ BindFail
    \/ AcceptError
    \/ NotFound
    \/ HandleCallback
    \/ Respond

Spec == Init /\ [][Next]_vars

\* The runtime polls a woken waiter, and the worker thread keeps running: it
\* binds, takes queued requests and writes responses.  Clients, the caller's
\* timeout and accept failures are under no obligation.
FairSpec ==
    /\ Spec
    /\ WF_vars(WaiterReceive)
    /\ WF_vars(BindOk \/ BindFail)
    /\ WF_vars(NotFound)
    /\ WF_vars(HandleCallback)
    /\ WF_vars(Respond)

-----------------------------------------------------------------------------
(* The client on its own: a program that builds an OAuthClient and calls    *)
(* its operations one after another, with no listener.                      *)

ExInit ==
    /\ CallbackIdle
    /\ expected_state = <<"st1">>
    /\ html_responder = "default"
    /\ config \in Configs
    /\ now \in Clocks
    /\ flow = NoFlow
    /\ clientPc = "idle"
    /\ opCalled = "none"
    /\ leg = "none"
    /\ args = NoArgs
    /\ tokens = NoTokens
    /\ wire = <<>>
    /\ replies = <<>>
    /\ ret = NoRet
    /\ nCalls = 0
    /\ overflow_checks \in BOOLEAN
    /\ LibIdle

ExNext ==
    \/ StartFlow
    \/ \E code \in Codes : \E verifier \in Verifiers : CallExchangeCode(code, verifier)
    \/ \E code \in Codes : \E verifier \in Verifiers :
          CallExchangeCodeForApiKey(code, verifier)
    \/ \E id_token \in IdTokens : CallObtainApiKey(id_token)
    \/ \E refresh_token \in RefreshTokens : CallRefreshToken(refresh_token)
    \/ \E resp \in Responses : ExchangeCodeReturns(resp)
    \/ \E resp \in Responses : ObtainApiKeyReturns(resp)
    \/ \E resp \in Responses : RefreshTokenReturns(resp)

ExchangeSpec == ExInit /\ [][ExNext]_vars

-----------------------------------------------------------------------------
(* The pure functions on their own *)

LibInit ==
    /\ CallbackIdle
    /\ expected_state = <<"st1">>
    /\ html_responder = "default"
    /\ config = DefaultConfig
    /\ now \in Clocks
    /\ flow = NoFlow
    /\ clientPc = "idle"
    /\ opCalled = "none"
    /\ leg = "none"
    /\ args = NoArgs
    /\ tokens = NoTokens
    /\ wire = <<>>
    /\ replies = <<>>
    /\ ret = NoRet
    /\ nCalls = 0
    /\ overflow_checks = FALSE
    /\ LibIdle

LibNext ==
    \/ \E expires_at \in ExpiryTimes : LoadTokenSet(expires_at)
    \/ \E d \in Advances : Tick(d)
    \/ ReadExpiry
    \/ \E token \in Jwts : CallExtractAccountId(token)
    \/ \E bytes \in RandomBytes : CallGeneratePkcePair(bytes)

LibSpec == LibInit /\ [][LibNext]_vars

-----------------------------------------------------------------------------
(* What a request carries, read from the request itself *)

HasError(r) == ParamOf(r, "error").some

HasCode(r) == ParamOf(r, "code").some

\* The state value of a request: the empty string when the parameter is absent.
StateValueOf(r) == UnwrapOrEmpty(ParamOf(r, "state"))

Returned == callerPc \in {"done", "exchanging"}

-----------------------------------------------------------------------------
(* C1 *)

\* C1: a handled request with no error parameter whose state value (empty
\* when absent) differs from the expected state is classified StateMismatch
\* and the outcome sent is the OAuth "State mismatch" error, which is what the
\* waiter returns; this holds with or without a code parameter, so no such
\* request yields Success.
C1_StateMismatchBeforeCode ==
    \A i \in 1..Len(classified) :
        LET e == classified[i]
        IN  (~HasError(e.req) /\ StateValueOf(e.req) # expected_state) =>
                /\ e.event = EvStateMismatch
                /\ e.msg = ErrOAuth(StateMismatchText)
                /\ (e.stored => sent = <<e.msg>>)
                /\ (Returned => result = ErrOAuth(StateMismatchText))

\* A request with a code and a wrong state was handled and the waiter got the
\* State mismatch error.
C1_Witness ==
    /\ Len(classified) = 1
    /\ HasCode(classified[1].req)
    /\ ~HasError(classified[1].req)
    /\ StateValueOf(classified[1].req) # expected_state
    /\ callerPc = "done"
    /\ result = ErrOAuth(StateMismatchText)

-----------------------------------------------------------------------------
(* C2 *)

\* C2: at most one value is ever stored into the oneshot channel and the
\* waiter takes at most one value out, which is the one stored; a send that
\* finds the receiver gone stores nothing, and the worker never panics.
C2_AtMostOnce ==
    /\ Len(sent) <= 1
    /\ Len(delivered) <= 1
    /\ (delivered # <<>> => delivered = sent)
    /\ workerPc # "panicked"
    /\ \A i \in 1..Len(classified) :
          ~classified[i].stored => (sent = <<>> /\ chan = NoMsg)

\* One outcome was sent and received, the listener has stopped, and a second
\* request came as well.
C2_Witness ==
    /\ Len(sent) = 1
    /\ Len(delivered) = 1
    /\ workerPc = "stopped"
    /\ nArrived = 2

-----------------------------------------------------------------------------
(* C3 *)

C3_Inv ==
    /\ Len(classified) <= 1
    /\ (workerPc = "listening" => classified = <<>>)
    /\ (classified # <<>> => workerPc \in {"responding", "stopped"})
    /\ (workerPc = "responding" => pending[1].stop)
    /\ (workerPc = "stopped" => Len(classified) = 1)

C3_Step ==
    /\ (classified # <<>> => (classified' = classified /\ sent' = sent))
    /\ (Returned => result' = result)
    /\ (workerPc = "responding" => workerPc' \in {"responding", "stopped"})
    /\ (workerPc = "stopped" => workerPc' = "stopped")

\* C3: whatever the outcome of the first handled callback request, the worker
\* goes from responding to stopped and never back to listening; no second
\* request is ever classified, nothing more is sent, and the result the
\* caller got never changes.
C3_StopsAfterFirst == [](C3_Inv) /\ [][C3_Step]_vars

\* The listener stopped after a StateMismatch, and a fully valid redirect
\* that came afterwards was refused.
C3_Witness ==
    /\ workerPc = "stopped"
    /\ Len(classified) = 1
    /\ classified[1].event = EvStateMismatch
    /\ \E j \in 1..Len(log) :
          /\ log[j].status = "refused"
          /\ log[j].req.path = CallbackPath
          /\ ~HasError(log[j].req)
          /\ HasCode(log[j].req)
          /\ StateValueOf(log[j].req) = expected_state

-----------------------------------------------------------------------------
(* C4 *)

\* C4: a handled request with an error parameter is classified as a provider
\* error whose reason is the parameter's value, and the outcome sent and
\* returned is the OAuth error "OAuth error: <value>", whatever its state
\* and code parameters are.
C4_ProviderError ==
    \A i \in 1..Len(classified) :
        LET e   == classified[i]
            err == ParamOf(e.req, "error")
        IN  err.some =>
                /\ e.event = EvError(err.v)
                /\ e.msg = ErrOAuth(<<"OAuth error: ">> \o err.v)
                /\ (e.stored => sent = <<e.msg>>)
                /\ (Returned => result = ErrOAuth(<<"OAuth error: ">> \o err.v))

\* A request with an error parameter beside a code and the expected state was
\* handled and the waiter got the OAuth error.
C4_Witness ==
    /\ Len(classified) = 1
    /\ HasError(classified[1].req)
    /\ HasCode(classified[1].req)
    /\ StateValueOf(classified[1].req) = expected_state
    /\ callerPc = "done"
    /\ result = ErrOAuth(<<"OAuth error: ", "access_denied">>)

-----------------------------------------------------------------------------
(* C5 *)

\* C5: a handled request with no error parameter, the expected state and a
\* code is classified Success with that code, and run_callback_server returns
\* Ok with exactly that code.
C5_Success ==
    \A i \in 1..Len(classified) :
        LET e    == classified[i]
            code == ParamOf(e.req, "code")
        IN  (~HasError(e.req) /\ StateValueOf(e.req) = expected_state /\ code.some) =>
                /\ e.event = EvSuccess(code.v)
                /\ e.msg = OkCode(code.v)
                /\ (e.stored => sent = <<e.msg>>)
                /\ (Returned => result = OkCode(code.v))

\* A valid redirect to the callback path was handled and the caller got Ok
\* with its code.
C5_Witness ==
    /\ Len(classified) = 1
    /\ classified[1].req.path = CallbackPath
    /\ ~HasError(classified[1].req)
    /\ StateValueOf(classified[1].req) = expected_state
    /\ callerPc = "done"
    /\ result = OkCode(<<"abc">>)

-----------------------------------------------------------------------------
(* C6 *)

\* C6: a handled request with no error parameter, the expected state and no
\* code is classified MissingCode, the waiter gets InvalidAuthorizationCode,
\* and the listener stops.
C6_MissingCode ==
    \A i \in 1..Len(classified) :
        LET e == classified[i]
        IN  (~HasError(e.req) /\ StateValueOf(e.req) = expected_state /\ ~HasCode(e.req)) =>
                /\ e.event = EvMissingCode
                /\ e.msg = ErrInvalidAuthorizationCode
                /\ (e.stored => sent = <<e.msg>>)
                /\ (Returned => result = ErrInvalidAuthorizationCode)
                /\ e.stop
                /\ workerPc \in {"responding", "stopped"}

\* A redirect with the expected state and no code was handled, the waiter got
\* InvalidAuthorizationCode and the listener has stopped.
C6_Witness ==
    /\ Len(classified) = 1
    /\ ~HasCode(classified[1].req)
    /\ ~HasError(classified[1].req)
    /\ StateValueOf(classified[1].req) = expected_state
    /\ callerPc = "done"
    /\ result = ErrInvalidAuthorizationCode
    /\ workerPc = "stopped"

-----------------------------------------------------------------------------
(* C7 *)

\* C7: a request whose path is not /auth/callback is never classified, and
\* when the loop takes it, it is answered 404; the listener stays listening
\* and the channel unused.
C7_OtherPathsGet404 ==
    /\ \A i \in 1..Len(classified) : classified[i].req.path = CallbackPath
    /\ \A j \in 1..Len(log) :
          (log[j].req.path # CallbackPath /\ log[j].status \notin {"refused", "unanswered"})
              => log[j].status = "404"

-----------------------------------------------------------------------------
(* C8 *)

\* C8: when the worker has ended (bind failure, end of the accept loop, or a
\* panic) with no outcome sent while the waiter waits, the waiter eventually
\* returns the CallbackServer "Server shut down unexpectedly" error, unless
\* the caller abandons the wait first.
C8_ShutdownObserved ==
    (workerPc \in {"failed", "closed", "panicked"} /\ sent = <<>> /\ callerPc = "waiting")
        ~> (\/ callerPc = "abandoned"
            \/ (callerPc = "done" /\ result = ErrCallbackServer(ServerShutDownText)))

\* The bind failed and the waiter returned the shut-down error.
C8_Witness ==
    /\ workerPc = "failed"
    /\ sent = <<>>
    /\ callerPc = "done"
    /\ result = ErrCallbackServer(ServerShutDownText)

-----------------------------------------------------------------------------
(* C9 *)

\* C9: an outcome classified after the waiter abandoned is stored nowhere and
\* delivered to nobody; the worker does not panic, goes on to write the
\* responder's HTML as the response, and stops with Ok(()).
C9_LateOutcomeDropped ==
    \A i \in 1..Len(classified) :
        LET e == classified[i]
        IN  ~e.stored =>
                /\ callerPc = "abandoned"
                /\ sent = <<>> /\ delivered = <<>> /\ chan = NoMsg
                /\ result = NoMsg
                /\ workerPc \in {"responding", "stopped"}
                /\ (workerPc = "responding" => pending[1].stop)
                /\ (workerPc = "stopped" =>
                        /\ workerRet = OkCode(<<>>)
                        /\ \E j \in 1..Len(log) :
                              log[j] = LogEntry(e.req, "200",
                                                CallResponder(html_responder, e.event)))

\* The waiter abandoned, a callback came afterwards, and the listener has
\* answered it and stopped.
C9_Witness ==
    /\ callerPc = "abandoned"
    /\ Len(classified) = 1
    /\ ~classified[1].stored
    /\ workerPc = "stopped"

-----------------------------------------------------------------------------
(* C10 *)

\* C10: a code is returned to the caller, and handed to exchange_code, only
\* after a request was classified Success with that code: the one classified
\* request carries that code, the expected state and no error parameter.
C10_CodeOnlyFromSuccess ==
    LET got == IF exchanged.some THEN exchanged
               ELSE IF Returned /\ result.kind = "Ok" THEN Some(result.code)
               ELSE None
    IN  got.some =>
            /\ Len(classified) = 1
            /\ classified[1].event = EvSuccess(got.v)
            /\ classified[1].stored
            /\ ParamOf(classified[1].req, "code") = got
            /\ ~HasError(classified[1].req)
            /\ StateValueOf(classified[1].req) = expected_state

\* The caller is in exchange_code with the code while the listener, already
\* resolved, has not written its response yet.
C10_Witness ==
    /\ callerPc = "exchanging"
    /\ exchanged = Some(<<"abc">>)
    /\ workerPc = "responding"

-----------------------------------------------------------------------------
(* C11 *)

SuccessClassified == classified # <<>> /\ classified[1].event.ev = "Success"

\* The statement as the specification words it: once the Success request has
\* its 200, every request logged after it got a 404.
C11_SecondGets404 ==
    \A i \in 1..Len(log) : \A j \in 1..Len(log) :
        (SuccessClassified /\ i < j /\ log[i].status = "200") =>
            log[j].status = "404"

C11_Inv ==
    \A i \in 1..Len(log) : \A j \in 1..Len(log) :
        (SuccessClassified /\ i < j /\ log[i].status = "200") =>
            log[j].status \in {"refused", "unanswered"}

C11_Step ==
    SuccessClassified =>
        /\ classified' = classified
        /\ sent' = sent
        /\ Len(log') >= Len(log)
        /\ \A j \in (Len(log) + 1)..Len(log') : log'[j].status # "404"

\* C11: after a first callback request has produced Success, no request gets
\* a 404 any more: a request sent after the 200 finds the port closed and is
\* refused, one still queued when the server is dropped stays unanswered, and
\* none of them is classified or sends anything.
C11_SecondUnanswered == [](C11_Inv) /\ [][C11_Step]_vars

\* Success was answered with its 200 and a request to another path that came
\* afterwards was refused.
C11_Witness ==
    /\ SuccessClassified
    /\ workerPc = "stopped"
    /\ Len(log) = 2
    /\ log[1].status = "200"
    /\ log[2].status = "refused"
    /\ log[2].req.path = <<"/favicon.ico">>

-----------------------------------------------------------------------------
(* C12 *)

BindFailed == workerRet.kind = "CallbackServer"

C12_Inv ==
    /\ BindFailed <=> workerPc = "failed"
    /\ BindFailed =>
          /\ ~PortBound
          /\ txSlot = "Dropped"
          /\ inbox = <<>> /\ classified = <<>> /\ sent = <<>>
          /\ \A j \in 1..Len(log) : log[j].status = "refused"
          /\ (Returned => result.kind = "CallbackServer")
          /\ exchanged = None

C12_Step == BindFailed => (workerPc' = "failed" /\ workerRet' = workerRet)

\* C12: when Server::http cannot bind, the worker ends at once with the bind
\* error and stays ended: it never binds again or elsewhere, never listens,
\* handles no request, and every client is refused; the caller's wait ends
\* too, with a CallbackServer error and no code.
C12_BindFailureFatal ==
    /\ [](C12_Inv)
    /\ [][C12_Step]_vars
    /\ ((BindFailed /\ callerPc = "waiting") ~> (callerPc # "waiting"))

\* The bind failed, two clients were refused, and the caller has its error.
C12_Witness ==
    /\ workerPc = "failed"
    /\ callerPc = "done"
    /\ result.kind = "CallbackServer"
    /\ Len(log) = 2

-----------------------------------------------------------------------------
(* C13 *)

\* C13: once run_callback_server has been called, and before its future is
\* awaited, the worker has been spawned: the listener is starting or started
\* while the caller opens the browser.
C13_StartedAtCall == callerPc = "created" => workerPc # "none"

-----------------------------------------------------------------------------
(* C14 *)

\* What process_callback does with request r when the responder is h, the
\* Sender is in its slot and the Receiver is alive or not.
OutcomeUnder(r, h, rxAlive) ==
    ProcessCallback(ParamOf(r, "code"), ParamOf(r, "state"), ParamOf(r, "error"),
                    expected_state, h, "Some", rxAlive)

\* C14: for every handled request and every responder h, handling the same
\* request with h in place of the installed responder gives the same event,
\* the same outcome, stored or dropped alike, and the same decision to stop;
\* what was sent, what the waiter returned and whether the worker goes on to
\* stop are those of h as well.  Only the page differs.
C14_ResponderNoEffect ==
    \A i \in 1..Len(classified) : \A h \in Responders :
        LET e == classified[i]
            o == OutcomeUnder(e.req, h, e.stored)
        IN  /\ o.event = e.event
            /\ o.msg = e.msg
            /\ o.stop = e.stop
            /\ o.stored = e.stored
            /\ o.panic = FALSE
            /\ (e.stored => sent = <<o.msg>>)
            /\ ((Returned /\ e.stored) => result = WaiterResult(o.msg))
            /\ (workerPc = "responding" => pending[1].stop = o.stop)
            /\ (workerPc = "stopped" => o.stop)

\* With the custom responder installed a Success was handled, its page was
\* written, and the caller got the code; the default responder renders
\* another page for the same event.
C14_Witness ==
    /\ html_responder = "custom"
    /\ SuccessClassified
    /\ callerPc = "done"
    /\ result = OkCode(<<"abc">>)
    /\ workerPc = "stopped"
    /\ log # <<>>
    /\ log[1].body = CustomCallbackHtml(classified[1].event)
    /\ log[1].body # DefaultCallbackHtml(classified[1].event)

-----------------------------------------------------------------------------
(* What the blocking client's histories say about the call in progress *)

\* The requests of the call in progress, or of the last call once it returned
Mine == SelectSeq(wire, LAMBDA w : w.call = nCalls)

\* The value a request's form carries for a key, if any
FormValue(w, key) == ParamOf([params |-> w.form], key)

\* The bytes of a request: its URL and its serialised form
RequestBytes(w) == w.url \o <<"?">> \o FormSerialize[w.form]

Contains(s, tok) == \E i \in 1..Len(s) : s[i] = tok

\* A call has returned
CallReturned(op) == opCalled = op /\ clientPc = "idle" /\ ret # NoRet

\* An answer with a status outside 200..299
Non2xx(resp) == resp.sent /\ ~(resp.status \in 200..299)

\* The body of an answer as far as it could be read
BodyRead(resp) == IF resp.text.some THEN resp.text.v ELSE <<>>

-----------------------------------------------------------------------------
(* C15 *)

\* C15: exchange_code_for_api_key first sends the exchange_code request with
\* its code and verifier.  An error of that leg is the result.  A TokenSet
\* without id_token ends the call with TokenExchange("missing id_token for
\* api key exchange") and no obtain_api_key request is sent.  A TokenSet with
\* an id_token is followed by one obtain_api_key request whose subject_token
\* is that id_token, and when that leg succeeds the result is the first
\* leg's TokenSet with api_key set to the key and every other field as it was.
C15_ForApiKey ==
    opCalled = "exchange_code_for_api_key" =>
        /\ Len(Mine) >= 1
        /\ Mine[1].fn = "exchange_code"
        /\ FormValue(Mine[1], "code") = Some(args.code)
        /\ FormValue(Mine[1], "code_verifier") = Some(<<args.verifier>>)
        /\ Len(replies) >= 1 =>
              LET a     == replies[1]
                  first == /\ a.sent /\ a.status \in 200..299 /\ a.text.some
                           /\ a.json.valid /\ a.json.access_token.some
                           /\ ret # Panicked
              IN  /\ ~first => (Len(Mine) = 1 /\ clientPc # "awaiting" /\ ~IsOk(ret))
                  /\ (first /\ ~a.json.id_token.some) =>
                        /\ Len(Mine) = 1
                        /\ clientPc = "idle"
                        /\ ret = ErrTokenExchange(MissingIdTokenText)
                  /\ (first /\ a.json.id_token.some) =>
                        /\ Len(Mine) = 2
                        /\ Mine[2].fn = "obtain_api_key"
                        /\ FormValue(Mine[2], "subject_token") = a.json.id_token
                        /\ (Len(replies) = 2 /\ ObtainApiKey(replies[2]).kind = "String") =>
                              /\ clientPc = "idle"
                              /\ ret.kind = "TokenSet"
                              /\ ret.tokens.api_key = replies[2].json.access_token
                              /\ ret.tokens.access_token = a.json.access_token.v
                              /\ ret.tokens.id_token = a.json.id_token
                              /\ ret.tokens.refresh_token = UnwrapOrEmpty(a.json.refresh_token)
                              /\ ret.tokens = [ExchangeCode(a, now).tokens EXCEPT
                                                  !.api_key = replies[2].json.access_token]

\* Both legs succeeded and the caller holds a TokenSet with an api key that
\* is not its access token.
C15_Witness ==
    /\ CallReturned("exchange_code_for_api_key")
    /\ Len(Mine) = 2
    /\ ret.kind = "TokenSet"
    /\ ret.tokens.api_key = Some(<<"at2">>)
    /\ ret.tokens.access_token = <<"at1">>
    /\ ret.tokens.id_token = Some(<<"idt1">>)

-----------------------------------------------------------------------------
(* C16 *)

\* C16: when the answer to obtain_api_key has a status outside 200..299, the
\* function fails with ApiKeyExchange carrying that status and the body, on
\* its own and as the second leg of exchange_code_for_api_key.
C16_ApiKeyExchangeOnNon2xx ==
    (/\ clientPc = "idle"
     /\ replies # <<>>
     /\ \/ opCalled = "obtain_api_key"
        \/ opCalled = "exchange_code_for_api_key" /\ Len(replies) = 2
     /\ Non2xx(replies[Len(replies)]))
    => ret = ErrApiKeyExchange(replies[Len(replies)].status,
                               BodyRead(replies[Len(replies)]))

-----------------------------------------------------------------------------
(* C17 *)

\* C17: when the answer to exchange_code has a status outside 200..299, the
\* call fails with Http carrying that status and the body as it was read
\* (empty when it could not be read), and no TokenSet is returned; this is
\* also what exchange_code_for_api_key returns when its first leg is answered
\* so.
C17_ExchangeCodeHttp ==
    (/\ opCalled \in {"exchange_code", "exchange_code_for_api_key"}
     /\ replies # <<>>
     /\ Non2xx(replies[1]))
    => /\ clientPc = "idle"
       /\ Len(replies) = 1
       /\ ret.kind = "Http"
       /\ ret.status = replies[1].status
       /\ ret.body = BodyRead(replies[1])
       /\ ret.tokens = NoTokenSet
       /\ ret = ErrHttp(replies[1].status, BodyRead(replies[1]))

\* exchange_code was answered 400 with an error body and returned Http with
\* both.
C17_Witness ==
    /\ CallReturned("exchange_code")
    /\ ret = ErrHttp(400, <<"{error:invalid_grant}">>)

-----------------------------------------------------------------------------
(* C18 *)

\* C18: when the answer to refresh_token has a status outside 200..299, the
\* call fails with ApiKeyExchange carrying that status and the body as it was
\* read, and no TokenSet is returned.
C18_RefreshApiKeyExchange ==
    (/\ opCalled = "refresh_token"
     /\ replies # <<>>
     /\ Non2xx(replies[1]))
    => /\ clientPc = "idle"
       /\ Len(replies) = 1
       /\ ret.kind = "ApiKeyExchange"
       /\ ret.status = replies[1].status
       /\ ret.body = BodyRead(replies[1])
       /\ ret.tokens = NoTokenSet

\* refresh_token was answered 502 with a text body and returned
\* ApiKeyExchange with both.
C18_Witness ==
    /\ CallReturned("refresh_token")
    /\ ret = ErrApiKeyExchange(502, <<"Bad Gateway">>)

-----------------------------------------------------------------------------
(* C19 *)

\* An answer the client takes as a success: 2xx with a body that decodes
Accepted(resp) ==
    /\ resp.sent /\ resp.status \in 200..299
    /\ resp.text.some /\ resp.json.valid /\ resp.json.access_token.some

C19_Inv ==
    /\ \A i \in 1..Len(wire) : \A j \in 1..Len(wire) :
          (i < j /\ wire[i].call = wire[j].call) =>
              (wire[i].fn = "exchange_code" /\ wire[j].fn = "obtain_api_key")
    /\ opCalled \in {"exchange_code", "obtain_api_key", "refresh_token"} =>
          (Len(Mine) = 1 /\ Mine[1].fn = opCalled)
    /\ opCalled = "exchange_code_for_api_key" => Len(Mine) \in {1, 2}
    /\ opCalled = "start_flow" => Mine = <<>>
    /\ Len(Mine) = Len(replies) + (IF clientPc = "awaiting" THEN 1 ELSE 0)
    /\ \A k \in 1..Len(replies) :
          ~Accepted(replies[k]) =>
              (k = Len(replies) /\ clientPc = "idle" /\ ~IsOk(ret))

C19_Step ==
    /\ Len(wire') <= Len(wire) + 1
    /\ (Len(replies') > Len(replies) /\ ~Accepted(replies'[Len(replies')])) =>
          (wire' = wire /\ clientPc' = "idle")

\* C19: no function sends its request twice in one call: a call of
\* exchange_code, obtain_api_key or refresh_token has exactly one request, a
\* call of exchange_code_for_api_key one or two (one per leg, in order), and
\* an answer that is a network failure, a non-2xx status or a body that does
\* not decode ends the call with an error and no further request.
C19_NoRetries == [](C19_Inv) /\ [][C19_Step]_vars

\* exchange_code met a network failure and returned the Network error with
\* one request sent.
C19_Witness ==
    /\ CallReturned("exchange_code")
    /\ replies = <<NoResponse>>
    /\ ret.kind = "Network"
    /\ Len(Mine) = 1

-----------------------------------------------------------------------------
(* C20 *)

\* The parameters of the authorization URL, read back from its query
UrlParams(url) == Querify(Nth1OrEmpty(Split[url, "?"]))

\* C20: no generated verifier occurs in the authorization URL, which carries
\* the S256 challenge of the flow's verifier, code_challenge_method=S256 and
\* the state of the flow descriptor; on the wire a verifier occurs only in
\* exchange_code requests, as code_verifier, and neither obtain_api_key nor
\* refresh_token requests carry one.
C20_VerifierOnlyInExchange ==
    /\ flow.some =>
          /\ \A v \in RandomVerifiers : ~Contains(flow.authorization_url, v)
          /\ FindParam(UrlParams(flow.authorization_url), "code_challenge")
                = Some(<<Sha256B64(flow.pkce_verifier)>>)
          /\ Sha256B64(flow.pkce_verifier) # flow.pkce_verifier
          /\ FindParam(UrlParams(flow.authorization_url), "code_challenge_method")
                = Some(<<"S256">>)
          /\ FindParam(UrlParams(flow.authorization_url), "state") = Some(<<flow.state>>)
          /\ ~FindParam(UrlParams(flow.authorization_url), "code_verifier").some
    /\ \A i \in 1..Len(wire) :
          /\ wire[i].fn = "exchange_code" <=> FormValue(wire[i], "code_verifier").some
          /\ wire[i].fn # "exchange_code" =>
                \A v \in RandomVerifiers : ~Contains(RequestBytes(wire[i]), v)
          /\ \A k \in 1..Len(wire[i].form) :
                (\E v \in RandomVerifiers : Contains(wire[i].form[k][2], v)) =>
                    wire[i].form[k][1] = "code_verifier"

\* A flow was started and its verifier went out in an exchange_code_for_api_key
\* call that also sent the obtain_api_key request.
C20_Witness ==
    /\ flow.some
    /\ Len(wire) = 2
    /\ wire[1].fn = "exchange_code"
    /\ FormValue(wire[1], "code_verifier") = Some(<<flow.pkce_verifier>>)
    /\ wire[2].fn = "obtain_api_key"

-----------------------------------------------------------------------------
(* Claims about the pure functions *)

\* C21: whenever a TokenSet is looked at, whatever the clock says, is_expired()
\* is true exactly when expires_in() is at most 300 seconds; with exactly 300
\* seconds remaining it is true and with 301 it is false.
C21_ExpiredIffWithinBuffer ==
    \A i \in 1..Len(readings) :
        /\ readings[i].is_expired <=> (readings[i].expires_in <= 300)
        /\ held.v.expires_at = readings[i].at + 300 => readings[i].is_expired
        /\ held.v.expires_at = readings[i].at + 301 => ~readings[i].is_expired

\* One TokenSet was looked at with 301 seconds remaining and again with 300.
C21_Witness ==
    /\ Len(readings) = 2
    /\ held.v.expires_at = readings[1].at + 301
    /\ ~readings[1].is_expired
    /\ held.v.expires_at = readings[2].at + 300
    /\ readings[2].is_expired

\* C22: over successive looks at one TokenSet expires_in() never grows; it is
\* expires_at - now while now < expires_at, exactly zero from expires_at on, and
\* never negative.
C22_ExpiresInNonIncreasing ==
    \A i \in 1..Len(readings) :
        /\ readings[i].at < held.v.expires_at =>
              readings[i].expires_in = held.v.expires_at - readings[i].at
        /\ readings[i].at >= held.v.expires_at => readings[i].expires_in = 0
        /\ readings[i].expires_in >= 0
        /\ \A j \in i..Len(readings) :
              /\ readings[i].at <= readings[j].at
              /\ readings[j].expires_in <= readings[i].expires_in

\* One TokenSet was looked at before its expiry and again after it.
C22_Witness ==
    /\ Len(readings) = 2
    /\ readings[1].at < held.v.expires_at
    /\ readings[1].expires_in > 0
    /\ readings[2].at > held.v.expires_at
    /\ readings[2].expires_in = 0

-----------------------------------------------------------------------------
(* C23 *)

\* C23: the TokenSet that exchange_code or refresh_token returns for a 2xx
\* answer has expires_at equal to the clock at its construction plus the
\* answer's expires_in, 3600 when the answer has none, so that expires_in()
\* read at once equals the announced lifetime.
C23_ExpiresAtFromLifetime ==
    (/\ opCalled \in {"exchange_code", "refresh_token"}
     /\ clientPc = "idle"
     /\ ret.kind = "TokenSet")
    => /\ ret.tokens.expires_at =
             now + (IF replies[1].json.expires_in.some
                    THEN replies[1].json.expires_in.v ELSE 3600)
       /\ ExpiresIn(ret.tokens, now) =
             (IF replies[1].json.expires_in.some
              THEN replies[1].json.expires_in.v ELSE 3600)

-----------------------------------------------------------------------------
(* C24 *)

\* C24: extract_account_id fails with InvalidJwt when the token cannot be
\* parsed, with MissingJwtClaim when it parses but the nested
\* chatgpt_account_id is absent or the empty string, and otherwise returns
\* exactly the value of the claim.
C24_ExtractAccountIdOutcomes ==
    jwt.called =>
        IF ~JwtDecodes(jwt.token)
        THEN jwt.ret.kind = "InvalidJwt"
        ELSE IF \/ jwt.token.auth # "object"
                \/ ~jwt.token.chatgpt_account_id.some
                \/ jwt.token.chatgpt_account_id.v = <<>>
        THEN jwt.ret.kind = "MissingJwtClaim"
        ELSE jwt.ret = OkString(jwt.token.chatgpt_account_id.v)

-----------------------------------------------------------------------------
(* C25 *)

\* C25: start_flow fails only when the authorization endpoint is not a valid
\* URL, and then with InvalidConfig; for a valid endpoint it returns the flow
\* descriptor; in both cases it sends no request.
C25_StartFlowInvalidConfig ==
    CallReturned("start_flow") =>
        /\ Mine = <<>>
        /\ UrlParseOk(config.auth_url) => (ret.kind = "OAuthFlow" /\ flow.some)
        /\ ~UrlParseOk(config.auth_url) => ret.kind = "InvalidConfig"

-----------------------------------------------------------------------------
(* C26 *)

\* Whether a character is of the URL-safe alphabet: A-Z, a-z, 0-9, "-", "_"
IsUrlSafeChar(c) ==
    c \in (65..90) \cup (97..122) \cup (48..57) \cup {45, 95}

\* The 6-bit value a character of the URL-safe alphabet stands for
UrlSafeValue(c) ==
    IF c \in 65..90 THEN c - 65
    ELSE IF c \in 97..122 THEN c - 97 + 26
    ELSE IF c \in 48..57 THEN c - 48 + 52
    ELSE IF c = 45 THEN 62
    ELSE 63

\* The bytes an unpadded base64url string encodes
Base64UrlDecode[chars \in Seq(Nat)] ==
    IF Len(chars) < 2 THEN <<>>
    ELSE IF Len(chars) = 2
    THEN <<UrlSafeValue(chars[1]) * 4 + UrlSafeValue(chars[2]) \div 16>>
    ELSE IF Len(chars) = 3
    THEN <<UrlSafeValue(chars[1]) * 4 + UrlSafeValue(chars[2]) \div 16,
           (UrlSafeValue(chars[2]) % 16) * 16 + UrlSafeValue(chars[3]) \div 4>>
    ELSE <<UrlSafeValue(chars[1]) * 4 + UrlSafeValue(chars[2]) \div 16,
           (UrlSafeValue(chars[2]) % 16) * 16 + UrlSafeValue(chars[3]) \div 4,
           (UrlSafeValue(chars[3]) % 4) * 64 + UrlSafeValue(chars[4])>>
         \o Base64UrlDecode[SubSeq(chars, 5, Len(chars))]

\* C26: in every PKCE pair the verifier is a string of 43 URL-safe characters
\* that encodes the 32 random bytes, and the challenge is the unpadded
\* base64url form of the SHA-256 digest of the verifier's ASCII bytes.
C26_PkcePair ==
    pkce.called =>
        /\ Len(pkce.bytes) = 32
        /\ Len(pkce.verifier) = 43
        /\ \A i \in 1..Len(pkce.verifier) : IsUrlSafeChar(pkce.verifier[i])
        /\ Base64UrlDecode[pkce.verifier] = pkce.bytes
        /\ Len(pkce.challenge) = 43
        /\ \A i \in 1..Len(pkce.challenge) : IsUrlSafeChar(pkce.challenge[i])
        /\ Base64UrlDecode[pkce.challenge] = Sha256Digest(pkce.verifier)

\* A pair was generated from random bytes that are all 255: its verifier
\* begins with "_", and its challenge is another string.
C26_Witness ==
    /\ pkce.called
    /\ pkce.bytes[1] = 255
    /\ pkce.verifier[1] = 95
    /\ pkce.challenge # pkce.verifier

-----------------------------------------------------------------------------
(* C27 *)

\* C27: when the worker could not bind, the error the caller of
\* run_callback_server receives is the worker's bind-failure error,
\* CallbackServer "Failed to bind to <addr>: ...", not another one.
C27_BindErrorReachesCaller ==
    (workerPc = "failed" /\ Returned) => result = ErrCallbackServer(BindFailedText)

-----------------------------------------------------------------------------
(* C29 *)

\* C29: an outcome is Success, and Ok is stored for the waiter or returned to
\* the caller, only for a request with no error parameter, a code, and a
\* state value (empty when the parameter is absent) equal to the expected
\* state; so when the expected state is empty, a request with a code and no
\* state parameter (and no error) is classified Success.
C29_SuccessOnlyWhenValid ==
    /\ \A i \in 1..Len(classified) :
          LET e == classified[i]
              valid == /\ ~HasError(e.req)
                       /\ HasCode(e.req)
                       /\ StateValueOf(e.req) = expected_state
          IN  /\ (e.event.ev = "Success" \/ e.msg.kind = "Ok") => valid
              /\ (/\ expected_state = <<>>
                  /\ ~HasError(e.req)
                  /\ HasCode(e.req)
                  /\ ~ParamOf(e.req, "state").some)
                 => (e.event.ev = "Success" /\ e.msg.kind = "Ok")
    /\ \A k \in 1..Len(sent) :
          sent[k].kind = "Ok" =>
              \E i \in 1..Len(classified) :
                  /\ classified[i].msg = sent[k]
                  /\ ~HasError(classified[i].req)
                  /\ HasCode(classified[i].req)
                  /\ StateValueOf(classified[i].req) = expected_state
    /\ (Returned /\ result.kind = "Ok") => (sent # <<>> /\ sent[1] = result)

\* The flow expects the empty state; a redirect with a code and no state
\* parameter was handled and the caller got Ok with the code.
C29_Witness ==
    /\ expected_state = <<>>
    /\ Len(classified) = 1
    /\ HasCode(classified[1].req)
    /\ ~ParamOf(classified[1].req, "state").some
    /\ ~HasError(classified[1].req)
    /\ classified[1].event.ev = "Success"
    /\ callerPc = "done"
    /\ result.kind = "Ok"

-----------------------------------------------------------------------------
(* C28 *)

\* The first request to the callback path now queued at the listening worker,
\* while the waiter waits, is r.
FirstCallbackQueued(r) ==
    /\ workerPc = "listening"
    /\ callerPc = "waiting"
    /\ \E i \in 1..Len(inbox) :
          /\ inbox[i] = r
          /\ \A j \in 1..(i - 1) : inbox[j].path # CallbackPath

\* The waiter has the outcome classified for r, the first request classified,
\* and the listener has stopped.
ResolvedBy(r) ==
    /\ workerPc = "stopped"
    /\ Returned
    /\ classified # <<>>
    /\ classified[1].req = r
    /\ result = classified[1].msg

\* C28: once the listener is bound and a request to the callback path has
\* arrived while the waiter waits, then, unless the waiter abandons or the
\* accept loop fails, the waiter eventually has exactly the outcome classified
\* for the first such request and the listener is Stopped.
C28_FirstCallbackResolves ==
    \A r \in {q \in Requests : q.path = CallbackPath} :
        FirstCallbackQueued(r)
            ~> (ResolvedBy(r) \/ callerPc = "abandoned" \/ workerPc = "closed")

-----------------------------------------------------------------------------
(* C30 *)

C30_Step ==
    /\ (callerPc # "abandoned" /\ callerPc' = "abandoned") =>
          (workerPc' = workerPc /\ inbox' = inbox /\ log' = log)
    /\ (callerPc = "abandoned" /\ workerPc = "listening") =>
          \/ /\ workerPc' = "listening"
             /\ inbox' # inbox =>
                   \/ Len(inbox') > Len(inbox)
                   \/ log' = Append(log, LogEntry(Head(inbox), "404", <<"Not Found">>))
          \/ workerPc' = "closed"
          \/ inbox # <<>> /\ Head(inbox).path = CallbackPath

\* C30: the waiter's abandoning changes nothing at the worker, and after it
\* the worker stays Listening with the port bound, answering requests to
\* other paths with 404, and leaves Listening only by taking a request to the
\* callback path (a failure of the accept loop aside).
C30_ListenerOutlivesWaiter == [][C30_Step]_vars

-----------------------------------------------------------------------------
(* C31 *)

\* A request to the callback path has been classified.
CallbackPathClassified ==
    \E i \in 1..Len(classified) : classified[i].req.path = CallbackPath

C31_Inv ==
    /\ PortBound => (txSlot = "Some" <=> ~CallbackPathClassified)
    /\ workerPc = "responding" =>
          /\ classified # <<>>
          /\ pending[1].req = classified[Len(classified)].req
          /\ txSlot = "None"
          /\ \A j \in 1..Len(log) : log[j].status # "200"
    /\ \A j \in 1..Len(log) :
          log[j].status = "200" => (classified # <<>> /\ txSlot # "Some")
    /\ callerPc = "exchanging" => workerPc \in {"responding", "stopped"}

C31_Step ==
    /\ sent' # sent =>
          /\ log' = log
          /\ workerPc = "listening"
          /\ workerPc' = "responding"
    /\ classified' # classified =>
          /\ log' = log
          /\ txSlot' = "None"
          /\ workerPc' \in {"responding", "panicked"}

\* C31: the outcome is stored in the channel in the step that classifies the
\* request, before the response is written and before the loop is left, so
\* the caller can be in exchange_code while the listener, not yet stopped,
\* still has the port bound; and while the listener is up the Sender is in
\* its slot exactly as long as no request to the callback path has been
\* classified.
C31_SendBeforeRespond == [](C31_Inv) /\ [][C31_Step]_vars

-----------------------------------------------------------------------------
(* C32 *)

\* Every request a client has sent so far is a request to the callback path.
OnlyCallbackPathRequests ==
    /\ \A i \in 1..Len(inbox) : inbox[i].path = CallbackPath
    /\ \A j \in 1..Len(log) : log[j].req.path = CallbackPath
    /\ \A k \in 1..Len(classified) : classified[k].req.path = CallbackPath

\* The log entries of requests the worker has answered
Answered == SelectSeq(log, LAMBDA e : e.status \in {"200", "404"})

C32_Inv ==
    OnlyCallbackPathRequests =>
        /\ Len(classified) <= 1
        /\ Len(Answered) <= Len(classified)
        /\ \A j \in 1..Len(Answered) :
              /\ Answered[j].status = "200"
              /\ Answered[j].req = classified[1].req
        /\ workerPc = "listening" => classified = <<>>
        /\ workerPc = "responding" => (Len(classified) = 1 /\ Answered = <<>>)
        /\ workerPc = "stopped" =>
              (Len(classified) = 1 /\ Len(Answered) = 1 /\ inbox = <<>>)

C32_Step ==
    OnlyCallbackPathRequests' =>
        /\ Len(inbox') > Len(inbox) =>
              (Len(inbox') = Len(inbox) + 1 /\ SubSeq(inbox', 1, Len(inbox)) = inbox)
        /\ classified' # classified =>
              /\ classified = <<>>
              /\ inbox # <<>>
              /\ Len(classified') = 1
              /\ classified'[1].req = Head(inbox)
              /\ inbox' = Tail(inbox)
        /\ (Len(inbox') < Len(inbox) /\ classified' = classified) =>
              /\ inbox' = <<>>
              /\ \A i \in 1..Len(inbox) :
                    log'[Len(log') - Len(inbox) + i] =
                        LogEntry(inbox[i], "unanswered", <<>>)

-----------------------------------------------------------------------------
(* C33 *)

\* C33: exchange_code_for_api_key returns either a TokenSet whose api_key is
\* present or an error that carries no TokenSet.  When its first leg was
\* answered with a TokenSet but that has no id_token, or obtain_api_key
\* failed, the result is the error alone: the first leg's TokenSet is gone
\* with the call, although the request carrying the authorization code has
\* been sent and answered.
C33_NoTokenSetWithoutApiKey ==
    (opCalled = "exchange_code_for_api_key" /\ clientPc = "idle") =>
        /\ \/ ret.kind = "TokenSet" /\ ret.tokens.api_key.some
           \/ ~IsOk(ret) /\ ret.tokens = NoTokenSet
        /\ tokens = NoTokens
        /\ (/\ Accepted(replies[1])
            /\ \/ ~replies[1].json.id_token.some
               \/ Len(replies) = 2 /\ ObtainApiKey(replies[2]).kind # "String")
           => /\ ~IsOk(ret)
              /\ ret.kind # "TokenSet"
              /\ ret.tokens = NoTokenSet
              /\ Mine[1].fn = "exchange_code"
              /\ FormValue(Mine[1], "code") = Some(args.code)

\* The first leg was answered with a TokenSet and an id_token, the second
\* leg was answered 400, and the caller has the Http error and no TokenSet.
C33_Witness ==
    /\ CallReturned("exchange_code_for_api_key")
    /\ Len(replies) = 2
    /\ Accepted(replies[1])
    /\ replies[1].json.id_token.some
    /\ replies[2].sent
    /\ replies[2].status = 400
    /\ ret.kind = "Http"
    /\ ret.tokens = NoTokenSet
    /\ tokens = NoTokens

====
